---- MODULE Spec2Model ----
(***************************************************************************)
(* IPTV-Sources: the source validation and channel resolution engine.      *)
(*   src/src/checker.py  IPTVSourceChecker  (probe executor, checker)      *)
(*   src/src/merger.py   IPTVSourceMerger   (normalizer, verifier, merger) *)
(*                                                                         *)
(* A Python str is a sequence of one-character symbols: an ASCII character *)
(* is itself, a CJK character is written by its code point ("u6e56").      *)
(***************************************************************************)
EXTENDS Integers, Sequences, FiniteSets, TLC

VARIABLES
    nName,      \* normalize_channel_name: the argument of the first call
    nOut,       \* normalize_channel_name: the values returned so far, in call order
    pConfig,    \* _check_source: the keys of self.config
    pRun,       \* _check_source: what subprocess.run does with the ffprobe command
    pRes,       \* _check_source: <<>> before the call, then <<its outcome>>
    vTitle,     \* verify_channel: claimed_info['title']
    vRun,       \* verify_channel: what subprocess.run does with the ffprobe command
    vRes,       \* verify_channel: <<>> before the call, then <<its outcome>>
    cConfig,    \* IPTVSourceChecker: self.config, [keys, max_workers]
    cResults,   \* IPTVSourceChecker: self.results, in insertion order
    cChannels,  \* check: the argument channels, in iteration order
    cFutures,   \* check: the futures submitted so far, in submission order
    cPc,        \* check: where the calling thread is
    cIdx,       \* check: the position of the loop of line 34 in futures
    cCalls,     \* the number of calls of check on this checker so far
    mConfig,    \* IPTVSourceMerger: the keys of self.config
    mResults,   \* merge: the argument check_results, in iteration order
    mInspect,   \* merge: per record and source, what subprocess.run does when
                \* verify_channel inspects that source
    mPc,        \* merge: "ready", then "done" (returned) or "failed" (raised)
    mFile,      \* the output playlist: <<>> while absent, else <<its entries>>
    sConfig,    \* _sort_channels_by_category / sort_channels_by_category: the keys of the config
    sIn,        \* the channels handed to the sort, in the order of the resolver
    sOut,       \* <<>> before the call, then <<[merger, root]>>: what each sort returned
    rEntry,     \* which main runs: "main" (src/main.py) or "src_main" (src/src/main.py)
    rArgs,      \* the command line: [no_check, no_epg]
    rConfig,    \* the keys of config.json
    rFiles,     \* the source files collected, as sequences of entries
    rWorld,     \* per URL, what its ffprobe processes do
    rEpg,       \* whether download_and_parse_epg finds EPG data
    rPc,        \* main: "start", "parsed", "checked", then "done" (returns) or "failed" (sys.exit(1))
    rChannels,  \* main: all_channels
    rProbes,    \* the number of ffprobe processes started by check
    rResults,   \* main: check_results
    rFile,      \* the output playlist of the run: <<>> while untouched, else <<its entries>>
    oPc,        \* organize_channels: "off", "ready", then "done"
    oOut,       \* <<>> before the call, then <<channels_by_name>> in insertion order
    wOutcomes,  \* per URL what its ffprobe processes do: [probe, inspect]; <<>> while unused
    wFinished,  \* the futures of the call of check in the order their tasks finished
    fFile,      \* parse_m3u_file: the lines of the file, [header, body]
    fPc,        \* "off", "ready", then "done"
    fOut        \* <<>> before the call, then <<[channels, pairs]>>

normVars == <<nName, nOut>>

probeVars == <<pConfig, pRun, pRes>>

verifyVars == <<vTitle, vRun, vRes>>

checkVars == <<cConfig, cResults, cChannels, cFutures, cPc, cIdx, cCalls>>

mergeVars == <<mConfig, mResults, mInspect, mPc, mFile>>

sortVars == <<sConfig, sIn, sOut>>

runVars == <<rEntry, rArgs, rConfig, rFiles, rWorld, rEpg, rPc, rChannels, rProbes, rResults, rFile>>

organizeVars == <<oPc, oOut>>

worldVars == <<wOutcomes, wFinished>>

parseVars == <<fFile, fPc, fOut>>

vars == <<nName, nOut, pConfig, pRun, pRes, vTitle, vRun, vRes,
          cConfig, cResults, cChannels, cFutures, cPc, cIdx, cCalls,
          mConfig, mResults, mInspect, mPc, mFile,
          sConfig, sIn, sOut,
          rEntry, rArgs, rConfig, rFiles, rWorld, rEpg, rPc, rChannels, rProbes, rResults, rFile,
          oPc, oOut,
          wOutcomes, wFinished,
          fFile, fPc, fOut>>

(***************************************************************************)
(* Strings                                                                 *)
(***************************************************************************)
UpperCase == <<"A", "B", "C", "D", "E", "F", "G", "H", "I", "J", "K", "L", "M",
               "N", "O", "P", "Q", "R", "S", "T", "U", "V", "W", "X", "Y", "Z">>

LowerCase == <<"a", "b", "c", "d", "e", "f", "g", "h", "i", "j", "k", "l", "m",
               "n", "o", "p", "q", "r", "s", "t", "u", "v", "w", "x", "y", "z">>

\* str.lower() on one character: only cased letters change.
LowerChar(c) ==
    IF \E i \in 1..Len(UpperCase) : UpperCase[i] = c
    THEN LowerCase[CHOOSE i \in 1..Len(UpperCase) : UpperCase[i] = c]
    ELSE c

\* str.lower()
lower(s) == [i \in 1..Len(s) |-> LowerChar(s[i])]

\* isinstance(s, str)
IsStr(s) == s = [i \in 1..Len(s) |-> s[i]]

\* s[j:].startswith(p), j counted from 1
HasPrefixAt(s, j, p) ==
    /\ j + Len(p) - 1 <= Len(s)
    /\ \A k \in 1..Len(p) : s[j + k - 1] = p[k]

\* the Python test "k in s" on two str
Contains(s, k) == \E j \in 1..(Len(s) - Len(k) + 1) : HasPrefixAt(s, j, k)

(***************************************************************************)
(* Regular expressions of the rule table.  A pattern is a sequence of      *)
(* elements: a literal character, an optional character ("-?"), a group of *)
(* alternative literals ("(a|b)"), and the tail "(\s|-|_|.)*".             *)
(***************************************************************************)
Lit(ch) == [k |-> "lit", c |-> ch, alts |-> <<>>]

Opt(ch) == [k |-> "opt", c |-> ch, alts |-> <<>>]

Alt(as) == [k |-> "alt", c |-> "", alts |-> as]

\* (\s|-|_|.)* : "." matches every character but a newline and \s matches the
\* newline, so one repetition consumes any one character.
Star == [k |-> "star", c |-> "", alts |-> <<>>]

Rule(p, name) == [pat |-> p, canon |-> name]

RECURSIVE MatchAt(_, _, _, _)
\* whether elements i.. of pat match s from position j on; the match need not
\* reach the end of s
MatchAt(pat, i, s, j) ==
    IF i > Len(pat) THEN TRUE
    ELSE LET e == pat[i] IN
         CASE e.k = "lit" -> /\ j <= Len(s)
                             /\ s[j] = e.c
                             /\ MatchAt(pat, i + 1, s, j + 1)
           [] e.k = "opt" -> \/ /\ j <= Len(s)
                                /\ s[j] = e.c
                                /\ MatchAt(pat, i + 1, s, j + 1)
                             \/ MatchAt(pat, i + 1, s, j)
           [] e.k = "alt" -> \E a \in 1..Len(e.alts) :
                                /\ HasPrefixAt(s, j, e.alts[a])
                                /\ MatchAt(pat, i + 1, s, j + Len(e.alts[a]))
           [] e.k = "star" -> \E n \in j..(Len(s) + 1) : MatchAt(pat, i + 1, s, n)

\* re.match(pattern, s): a match anchored at the start of s
re_match(pat, s) == MatchAt(pat, 1, s, 1)

(***************************************************************************)
(* IPTVSourceMerger.__init__: the rule table, in insertion order (the      *)
(* iteration order of a dict), and the suspicion keyword list.             *)
(***************************************************************************)
channel_name_map ==
  << Rule(<<Lit("c"), Lit("c"), Lit("t"), Lit("v"), Opt("-"), Lit("1"), Star>>,
          <<"C", "C", "T", "V", "-", "1", " ", "u7efc", "u5408">>),
     Rule(<<Lit("c"), Lit("c"), Lit("t"), Lit("v"), Opt("-"), Lit("2"), Star>>,
          <<"C", "C", "T", "V", "-", "2", " ", "u8d22", "u7ecf">>),
     Rule(<<Lit("c"), Lit("c"), Lit("t"), Lit("v"), Opt("-"), Lit("3"), Star>>,
          <<"C", "C", "T", "V", "-", "3", " ", "u7efc", "u827a">>),
     Rule(<<Lit("c"), Lit("c"), Lit("t"), Lit("v"), Opt("-"), Lit("4"), Star>>,
          <<"C", "C", "T", "V", "-", "4", " ", "u4e2d", "u6587", "u56fd", "u9645">>),
     Rule(<<Lit("c"), Lit("c"), Lit("t"), Lit("v"), Opt("-"), Lit("5"), Star>>,
          <<"C", "C", "T", "V", "-", "5", " ", "u4f53", "u80b2">>),
     Rule(<<Lit("c"), Lit("c"), Lit("t"), Lit("v"), Opt("-"), Lit("5"), Lit("+"), Star>>,
          <<"C", "C", "T", "V", "-", "5", "+", " ", "u4f53", "u80b2", "u8d5b", "u4e8b">>),
     Rule(<<Lit("c"), Lit("c"), Lit("t"), Lit("v"), Opt("-"), Lit("6"), Star>>,
          <<"C", "C", "T", "V", "-", "6", " ", "u7535", "u5f71">>),
     Rule(<<Lit("c"), Lit("c"), Lit("t"), Lit("v"), Opt("-"), Lit("7"), Star>>,
          <<"C", "C", "T", "V", "-", "7", " ", "u56fd", "u9632", "u519b", "u4e8b">>),
     Rule(<<Lit("c"), Lit("c"), Lit("t"), Lit("v"), Opt("-"), Lit("8"), Star>>,
          <<"C", "C", "T", "V", "-", "8", " ", "u7535", "u89c6", "u5267">>),
     Rule(<<Lit("c"), Lit("c"), Lit("t"), Lit("v"), Opt("-"), Lit("9"), Star>>,
          <<"C", "C", "T", "V", "-", "9", " ", "u7eaa", "u5f55">>),
     Rule(<<Lit("c"), Lit("c"), Lit("t"), Lit("v"), Opt("-"), Lit("1"), Lit("0"), Star>>,
          <<"C", "C", "T", "V", "-", "1", "0", " ", "u79d1", "u6559">>),
     Rule(<<Lit("c"), Lit("c"), Lit("t"), Lit("v"), Opt("-"), Lit("1"), Lit("1"), Star>>,
          <<"C", "C", "T", "V", "-", "1", "1", " ", "u620f", "u66f2">>),
     Rule(<<Lit("c"), Lit("c"), Lit("t"), Lit("v"), Opt("-"), Lit("1"), Lit("2"), Star>>,
          <<"C", "C", "T", "V", "-", "1", "2", " ", "u793e", "u4f1a", "u4e0e", "u6cd5">>),
     Rule(<<Lit("c"), Lit("c"), Lit("t"), Lit("v"), Opt("-"), Lit("1"), Lit("3"), Star>>,
          <<"C", "C", "T", "V", "-", "1", "3", " ", "u65b0", "u95fb">>),
     Rule(<<Lit("c"), Lit("c"), Lit("t"), Lit("v"), Opt("-"), Lit("1"), Lit("4"), Star>>,
          <<"C", "C", "T", "V", "-", "1", "4", " ", "u5c11", "u513f">>),
     Rule(<<Lit("c"), Lit("c"), Lit("t"), Lit("v"), Opt("-"), Lit("1"), Lit("5"), Star>>,
          <<"C", "C", "T", "V", "-", "1", "5", " ", "u97f3", "u4e50">>),
     Rule(<<Lit("c"), Lit("c"), Lit("t"), Lit("v"), Opt("-"), Lit("1"), Lit("6"), Star>>,
          <<"C", "C", "T", "V", "-", "1", "6", " ", "u5965", "u6797", "u5339", "u514b">>),
     Rule(<<Lit("c"), Lit("c"), Lit("t"), Lit("v"), Opt("-"), Lit("1"), Lit("7"), Star>>,
          <<"C", "C", "T", "V", "-", "1", "7", " ", "u519c", "u4e1a", "u519c", "u6751">>),
     Rule(<<Alt(<<<<"u6e56", "u5357">>, <<"u6e56", "u5357", "u536b", "u89c6">>>>), Star>>,
          <<"u6e56", "u5357", "u536b", "u89c6">>),
     Rule(<<Alt(<<<<"u6d59", "u6c5f">>, <<"u6d59", "u6c5f", "u536b", "u89c6">>>>), Star>>,
          <<"u6d59", "u6c5f", "u536b", "u89c6">>),
     Rule(<<Alt(<<<<"u6c5f", "u82cf">>, <<"u6c5f", "u82cf", "u536b", "u89c6">>>>), Star>>,
          <<"u6c5f", "u82cf", "u536b", "u89c6">>),
     Rule(<<Alt(<<<<"u4e1c", "u65b9">>, <<"u4e1c", "u65b9", "u536b", "u89c6">>>>), Star>>,
          <<"u4e1c", "u65b9", "u536b", "u89c6">>),
     Rule(<<Alt(<<<<"u5317", "u4eac">>, <<"u5317", "u4eac", "u536b", "u89c6">>>>), Star>>,
          <<"u5317", "u4eac", "u536b", "u89c6">>),
     Rule(<<Alt(<<<<"u5e7f", "u4e1c">>, <<"u5e7f", "u4e1c", "u536b", "u89c6">>>>), Star>>,
          <<"u5e7f", "u4e1c", "u536b", "u89c6">>),
     Rule(<<Alt(<<<<"u6df1", "u5733">>, <<"u6df1", "u5733", "u536b", "u89c6">>>>), Star>>,
          <<"u6df1", "u5733", "u536b", "u89c6">>),
     Rule(<<Alt(<<<<"u5c71", "u4e1c">>, <<"u5c71", "u4e1c", "u536b", "u89c6">>>>), Star>>,
          <<"u5c71", "u4e1c", "u536b", "u89c6">>),
     Rule(<<Alt(<<<<"u6e56", "u5317">>, <<"u6e56", "u5317", "u536b", "u89c6">>>>), Star>>,
          <<"u6e56", "u5317", "u536b", "u89c6">>),
     Rule(<<Alt(<<<<"u5b89", "u5fbd">>, <<"u5b89", "u5fbd", "u536b", "u89c6">>>>), Star>>,
          <<"u5b89", "u5fbd", "u536b", "u89c6">>),
     Rule(<<Alt(<<<<"u4e1c", "u5357">>, <<"u798f", "u5efa">>, <<"u4e1c", "u5357", "u536b", "u89c6">>, <<"u798f", "u5efa", "u536b", "u89c6">>>>), Star>>,
          <<"u4e1c", "u5357", "u536b", "u89c6">>),
     Rule(<<Alt(<<<<"u6c5f", "u897f">>, <<"u6c5f", "u897f", "u536b", "u89c6">>>>), Star>>,
          <<"u6c5f", "u897f", "u536b", "u89c6">>),
     Rule(<<Alt(<<<<"u6cb3", "u5357">>, <<"u6cb3", "u5357", "u536b", "u89c6">>>>), Star>>,
          <<"u6cb3", "u5357", "u536b", "u89c6">>),
     Rule(<<Alt(<<<<"u6cb3", "u5317">>, <<"u6cb3", "u5317", "u536b", "u89c6">>>>), Star>>,
          <<"u6cb3", "u5317", "u536b", "u89c6">>),
     Rule(<<Alt(<<<<"u5c71", "u897f">>, <<"u5c71", "u897f", "u536b", "u89c6">>>>), Star>>,
          <<"u5c71", "u897f", "u536b", "u89c6">>),
     Rule(<<Alt(<<<<"u8fbd", "u5b81">>, <<"u8fbd", "u5b81", "u536b", "u89c6">>>>), Star>>,
          <<"u8fbd", "u5b81", "u536b", "u89c6">>),
     Rule(<<Alt(<<<<"u5409", "u6797">>, <<"u5409", "u6797", "u536b", "u89c6">>>>), Star>>,
          <<"u5409", "u6797", "u536b", "u89c6">>),
     Rule(<<Alt(<<<<"u9ed1", "u9f99", "u6c5f">>, <<"u9ed1", "u9f99", "u6c5f", "u536b", "u89c6">>>>), Star>>,
          <<"u9ed1", "u9f99", "u6c5f", "u536b", "u89c6">>),
     Rule(<<Alt(<<<<"u5e7f", "u897f">>, <<"u5e7f", "u897f", "u536b", "u89c6">>>>), Star>>,
          <<"u5e7f", "u897f", "u536b", "u89c6">>),
     Rule(<<Alt(<<<<"u4e91", "u5357">>, <<"u4e91", "u5357", "u536b", "u89c6">>>>), Star>>,
          <<"u4e91", "u5357", "u536b", "u89c6">>),
     Rule(<<Alt(<<<<"u8d35", "u5dde">>, <<"u8d35", "u5dde", "u536b", "u89c6">>>>), Star>>,
          <<"u8d35", "u5dde", "u536b", "u89c6">>),
     Rule(<<Alt(<<<<"u56db", "u5ddd">>, <<"u56db", "u5ddd", "u536b", "u89c6">>>>), Star>>,
          <<"u56db", "u5ddd", "u536b", "u89c6">>),
     Rule(<<Alt(<<<<"u91cd", "u5e86">>, <<"u91cd", "u5e86", "u536b", "u89c6">>>>), Star>>,
          <<"u91cd", "u5e86", "u536b", "u89c6">>),
     Rule(<<Alt(<<<<"u9655", "u897f">>, <<"u9655", "u897f", "u536b", "u89c6">>>>), Star>>,
          <<"u9655", "u897f", "u536b", "u89c6">>),
     Rule(<<Alt(<<<<"u7518", "u8083">>, <<"u7518", "u8083", "u536b", "u89c6">>>>), Star>>,
          <<"u7518", "u8083", "u536b", "u89c6">>),
     Rule(<<Alt(<<<<"u5b81", "u590f">>, <<"u5b81", "u590f", "u536b", "u89c6">>>>), Star>>,
          <<"u5b81", "u590f", "u536b", "u89c6">>),
     Rule(<<Alt(<<<<"u9752", "u6d77">>, <<"u9752", "u6d77", "u536b", "u89c6">>>>), Star>>,
          <<"u9752", "u6d77", "u536b", "u89c6">>),
     Rule(<<Alt(<<<<"u65b0", "u7586">>, <<"u65b0", "u7586", "u536b", "u89c6">>>>), Star>>,
          <<"u65b0", "u7586", "u536b", "u89c6">>),
     Rule(<<Alt(<<<<"u897f", "u85cf">>, <<"u897f", "u85cf", "u536b", "u89c6">>>>), Star>>,
          <<"u897f", "u85cf", "u536b", "u89c6">>),
     Rule(<<Alt(<<<<"u5185", "u8499", "u53e4">>, <<"u5185", "u8499", "u53e4", "u536b", "u89c6">>>>), Star>>,
          <<"u5185", "u8499", "u53e4", "u536b", "u89c6">>),
     Rule(<<Alt(<<<<"u6d77", "u5357">>, <<"u6d77", "u5357", "u536b", "u89c6">>>>), Star>>,
          <<"u6d77", "u5357", "u536b", "u89c6">>),
     Rule(<<Alt(<<<<"u7fe1", "u7fe0", "u53f0">>, <<"T", "V", "B", "u7fe1", "u7fe0", "u53f0">>>>), Star>>,
          <<"u7fe1", "u7fe0", "u53f0">>),
     Rule(<<Alt(<<<<"u660e", "u73e0", "u53f0">>, <<"T", "V", "B", "u660e", "u73e0", "u53f0">>>>), Star>>,
          <<"u660e", "u73e0", "u53f0">>),
     Rule(<<Alt(<<<<"J", "2">>, <<"T", "V", "B", " ", "J", "2">>>>), Star>>,
          <<"J", "2">>),
     Rule(<<Alt(<<<<"u51e4", "u51f0", "u4e2d", "u6587">>, <<"u51e4", "u51f0", "u536b", "u89c6", "u4e2d", "u6587", "u53f0">>>>), Star>>,
          <<"u51e4", "u51f0", "u536b", "u89c6", "u4e2d", "u6587", "u53f0">>),
     Rule(<<Alt(<<<<"u51e4", "u51f0", "u8d44", "u8baf">>, <<"u51e4", "u51f0", "u536b", "u89c6", "u8d44", "u8baf", "u53f0">>>>), Star>>,
          <<"u51e4", "u51f0", "u536b", "u89c6", "u8d44", "u8baf", "u53f0">>),
     Rule(<<Alt(<<<<"u51e4", "u51f0", "u9999", "u6e2f">>, <<"u51e4", "u51f0", "u536b", "u89c6", "u9999", "u6e2f", "u53f0">>>>), Star>>,
          <<"u51e4", "u51f0", "u536b", "u89c6", "u9999", "u6e2f", "u53f0">>),
     Rule(<<Alt(<<<<"u9999", "u6e2f", "u53f0">>, <<"R", "T", "H", "K">>, <<"R", "T", "H", "K", "3", "1">>, <<"R", "T", "H", "K", "3", "2">>>>), Star>>,
          <<"u9999", "u6e2f", "u7535", "u53f0">>),
     Rule(<<Alt(<<<<"u6fb3", "u95e8">>, <<"u6fb3", "u89c6">>, <<"u6fb3", "u4e9a">>, <<"u6fb3", "u89c6", "u6fb3", "u95e8">>, <<"u6fb3", "u95e8", "u536b", "u89c6">>>>), Star>>,
          <<"u6fb3", "u95e8", "u536b", "u89c6">>),
     Rule(<<Alt(<<<<"u53f0", "u6e7e">>, <<"u53f0", "u89c6">>, <<"u4e2d", "u89c6">>, <<"u534e", "u89c6">>, <<"u6c11", "u89c6">>>>), Star>>,
          <<"u53f0", "u6e7e", "u7535", "u89c6", "u53f0">>),
     Rule(<<Alt(<<<<"T", "V", "B", "S">>, <<"T", "V", "B", "S", "u65b0", "u95fb", "u53f0">>>>), Star>>,
          <<"T", "V", "B", "S", "u65b0", "u95fb", "u53f0">>) >>

suspicious_keywords ==
  << <<"x", "x", "x">>, <<"a", "d", "u", "l", "t">>, <<"p", "o", "r", "n">>, <<"u6210", "u4eba">>,
     <<"u798f", "u5229">>, <<"u6df1", "u591c">>, <<"u5348", "u591c">>, <<"u9650", "u5236">>,
     <<"m", "o", "v", "i", "e">>, <<"c", "i", "n", "e", "m", "a">>, <<"f", "i", "l", "m">>, <<"u7535", "u5f71">>,
     <<"u5f71", "u9662">>, <<"s", "p", "o", "r", "t", "s">>, <<"e", "s", "p", "n">>, <<"s", "k", "y">>,
     <<"s", "t", "a", "r">>, <<"u4f53", "u80b2">>, <<"u8d5b", "u4e8b">>, <<"f", "o", "x">>,
     <<"h", "b", "o">>, <<"c", "n", "n">>, <<"b", "b", "c">>, <<"n", "b", "c">>,
     <<"a", "b", "c">>, <<"c", "b", "s">>, <<"d", "i", "s", "c", "o", "v", "e", "r", "y">>, <<"n", "a", "t", "i", "o", "n", "a", "l">>,
     <<"a", "n", "i", "m", "a", "l">>, <<"h", "i", "s", "t", "o", "r", "y">>, <<"d", "i", "s", "n", "e", "y">>, <<"c", "a", "r", "t", "o", "o", "n">>,
     <<"u52a8", "u753b">>, <<"u5361", "u901a">> >>

(***************************************************************************)
(* IPTVSourceMerger.normalize_channel_name                                 *)
(***************************************************************************)
RECURSIVE first_match(_, _)
\* lines 104-107: the index of the first rule from i on whose pattern matches
\* name_lower, 0 when the loop ends without a match
first_match(name_lower, i) ==
    IF i > Len(channel_name_map) THEN 0
    ELSE IF re_match(channel_name_map[i].pat, name_lower) THEN i
    ELSE first_match(name_lower, i + 1)

\* a slip in the loop: the canonical name is taken from the rule after the
\* matching one
normalize_channel_name_shifted(name) ==
    IF name = <<>> THEN name
    ELSE LET first == first_match(lower(name), 1)
         IN IF first = 0 THEN name
            ELSE channel_name_map[(first % Len(channel_name_map)) + 1].canon

normalize_channel_name(name) ==
    IF name = <<>> THEN name
    ELSE LET first == first_match(lower(name), 1)
         IN IF first = 0 THEN name
            ELSE channel_name_map[first].canon

(***************************************************************************)
(* Input names: the canonical names of the table and every concatenation   *)
(* of at most MaxNameFrags fragments.                                      *)
(***************************************************************************)
MaxNameFrags == 3

NameFragments ==
  { <<"c", "c", "t", "v">>,
    <<"C", "C", "T", "V">>,
    <<"-">>,
    <<"1">>,
    <<"1", "0">>,
    <<"5">>,
    <<" ">>,
    <<"u6e56", "u5357">>,
    <<"u536b", "u89c6">>,
    <<"J", "2">>,
    <<"t", "v", "b", "s">>,
    <<"u9999", "u6e2f", "u53f0">> }

RECURSIVE Concats(_)
Concats(n) ==
    IF n = 0 THEN {<<>>}
    ELSE LET shorter == Concats(n - 1)
         IN shorter \cup {s \o f : s \in shorter, f \in NameFragments}

CanonicalNames == {channel_name_map[i].canon : i \in 1..Len(channel_name_map)}

Names == CanonicalNames \cup Concats(MaxNameFrags)


(***************************************************************************)
(* The configuration (config.json) as the set of its keys.                 *)
(***************************************************************************)
ConfigKeys == {"max_workers", "check_timeout", "categories", "output_dir", "output_file"}

(***************************************************************************)
(* The media-stream inspector (ffprobe) run by subprocess.run.  A run      *)
(* either raises TimeoutExpired, raises another exception (the process     *)
(* could not be launched), or completes after `elapsed` time units with a  *)
(* return code and its standard output.  The output is a sequence of JSON  *)
(* lexemes; KeyStreams is the key "streams", StreamObj one stream object.  *)
(***************************************************************************)
MaxLatency == 2

MaxStreams == 2

\* float('inf'): greater than every measured latency
Inf == MaxLatency + 1

KeyStreams == "streams"

StreamObj == "{stream}"

\* {"streams": [ n stream objects ]}
StreamsJson(n) == <<"{", KeyStreams, ":", "[">> \o [i \in 1..n |-> StreamObj] \o <<"]", "}">>

Stdouts ==
    {<<>>, <<"{", "}">>, <<"not json">>} \cup {StreamsJson(n) : n \in 0..MaxStreams}

\* the number of video streams the response reports
StreamCount(stdout) == Cardinality({i \in 1..Len(stdout) : stdout[i] = StreamObj})

Runs ==
    {[kind |-> "timeout", returncode |-> 0, stdout |-> <<>>, elapsed |-> 0],
     [kind |-> "oserror", returncode |-> 0, stdout |-> <<>>, elapsed |-> 0]}
    \cup [kind : {"completed"}, returncode : {0, 1}, stdout : Stdouts,
          elapsed : 0..MaxLatency]

\* the classes derived from Exception among the exceptions a run can raise
ExceptionSubclasses == {"TimeoutExpired", "OSError", "KeyError"}

Returned(valid, lat) == [exc |-> "", is_valid |-> valid, latency |-> lat]

Raised(class) == [exc |-> class, is_valid |-> FALSE, latency |-> Inf]

(***************************************************************************)
(* IPTVSourceChecker._check_source                                         *)
(***************************************************************************)
\* the body of the try statement, lines 58-79
check_source_try(config, run) ==
    IF "check_timeout" \notin config THEN Raised("KeyError")
    ELSE IF run.kind = "timeout" THEN Raised("TimeoutExpired")
    ELSE IF run.kind = "oserror" THEN Raised("OSError")
    ELSE LET latency == run.elapsed
             is_valid == /\ run.returncode = 0
                         /\ \E i \in 1..Len(run.stdout) : run.stdout[i] = KeyStreams
         IN Returned(is_valid, latency)

\* the second handler (except Exception) is missing
check_source_one_handler(config, run) ==
    LET r == check_source_try(config, run)
    IN IF r.exc = "TimeoutExpired" THEN Returned(FALSE, Inf) ELSE r

check_source(config, run) ==
    LET r == check_source_try(config, run)
    IN IF r.exc = "" THEN r
       ELSE IF r.exc = "TimeoutExpired" THEN Returned(FALSE, Inf)
       ELSE IF r.exc \in ExceptionSubclasses THEN Returned(FALSE, Inf)
       ELSE r


(***************************************************************************)
(* IPTVSourceMerger.verify_channel.  The inspection's output, once parsed  *)
(* by json.loads, is a dict that may hold "programs" and "streams"; an     *)
(* entry of either list is described by the tags the code reads:           *)
(*   tags = FALSE                    no "tags" key                         *)
(*   service_name, title = <<>>      the tag is absent, <<n>> its value    *)
(***************************************************************************)
Entry(sn, ti) == [tags |-> TRUE, service_name |-> sn, title |-> ti]

NoTags == [tags |-> FALSE, service_name |-> <<>>, title |-> <<>>]

\* the characters that \w does not match, among the characters used here
NonWordChars == {" ", "-", "+", ".", "/"}

\* set(re.findall(r'\w+', s)): the maximal runs of word characters
Tokens(s) ==
    LET word(k) == s[k] \notin NonWordChars
        starts == {a \in 1..Len(s) : word(a) /\ (a = 1 \/ ~word(a - 1))}
        ends == {b \in 1..Len(s) : word(b) /\ (b = Len(s) \/ ~word(b + 1))}
    IN {SubSeq(s, a, CHOOSE b \in ends : b >= a /\ \A c \in ends : c >= a => b <= c) :
           a \in starts}

\* min(a, b)
Min(a, b) == IF a < b THEN a ELSE b

\* lines 116-124: whether the claimed title calls for verification
need_verification(claimed_name) ==
    \/ \E i \in 1..Len(suspicious_keywords) : Contains(claimed_name, suspicious_keywords[i])
    \/ Contains(claimed_name, <<"c", "c", "t", "v">>)
    \/ Contains(claimed_name, <<"u592e", "u89c6">>)

\* lines 148-153: the service_name of the first program that has one
ProgramName(data) ==
    IF "programs" \in data.keys /\ data.programs # <<>>
    THEN LET hits == {i \in 1..Len(data.programs) :
                         /\ data.programs[i].tags
                         /\ data.programs[i].service_name # <<>>}
         IN IF hits = {} THEN <<>>
            ELSE data.programs[CHOOSE i \in hits : \A h \in hits : i <= h].service_name
    ELSE <<>>

\* lines 156-165: the title, else the service_name, of the first stream whose
\* tags hold either
StreamName(data) ==
    IF "streams" \in data.keys /\ data.streams # <<>>
    THEN LET hits == {i \in 1..Len(data.streams) :
                         /\ data.streams[i].tags
                         /\ \/ data.streams[i].title # <<>>
                            \/ data.streams[i].service_name # <<>>}
         IN IF hits = {} THEN <<>>
            ELSE LET e == data.streams[CHOOSE i \in hits : \A h \in hits : i <= h]
                 IN IF e.title # <<>> THEN e.title ELSE e.service_name
    ELSE <<>>

\* actual_name as <<>> (None) or <<name>>; a name may be the empty str
ActualName(data) ==
    LET p == ProgramName(data)
    IN IF p # <<>> /\ p[1] # <<>> THEN p ELSE
       LET t == StreamName(data)
       IN IF t # <<>> THEN t ELSE p

Verdict(class, started, ok) == [exc |-> class, launched |-> started, is_verified |-> ok]

\* lines 168-185: the comparison of the names (TRUE: the function goes on to
\* line 187)
names_match(claimed_name, actual_name) ==
    LET actual_name_lower == lower(actual_name)
        claimed_keywords == Tokens(claimed_name)
        actual_keywords == Tokens(actual_name_lower)
        overlap == claimed_keywords \cap actual_keywords
    IN IF /\ Contains(claimed_name, <<"c", "c", "t", "v">>)
          /\ ~Contains(actual_name_lower, <<"c", "c", "t", "v">>)
       THEN FALSE
       ELSE ~(Cardinality(overlap) < Min(1, Cardinality(claimed_keywords) \div 3))

\* the body of the try statement, lines 131-187
verify_channel_try(claimed_name, run) ==
    IF run.kind = "timeout" THEN Verdict("TimeoutExpired", TRUE, FALSE)
    ELSE IF run.kind = "oserror" THEN Verdict("OSError", TRUE, FALSE)
    ELSE IF run.returncode # 0 THEN Verdict("", TRUE, TRUE)
    ELSE IF ~run.parses THEN Verdict("JSONDecodeError", TRUE, FALSE)
    ELSE LET actual == ActualName(run.data)
         IN IF actual # <<>> /\ actual[1] # <<>>
            THEN Verdict("", TRUE, names_match(claimed_name, actual[1]))
            ELSE Verdict("", TRUE, TRUE)

\* the handler rejects the source when the inspection fails
verify_channel_fail_closed(title, run) ==
    LET claimed_name == lower(title)
    IN IF ~need_verification(claimed_name) THEN Verdict("", FALSE, TRUE)
       ELSE LET r == verify_channel_try(claimed_name, run)
            IN IF r.exc = "" THEN r ELSE Verdict("", TRUE, FALSE)

\* the early return of line 127 is missing: every title is inspected
verify_channel_always(title, run) ==
    LET r == verify_channel_try(lower(title), run)
    IN IF r.exc = "" THEN r ELSE Verdict("", TRUE, TRUE)

verify_channel(title, run) ==
    LET claimed_name == lower(title)
    IN IF ~need_verification(claimed_name) THEN Verdict("", FALSE, TRUE)
       ELSE LET r == verify_channel_try(claimed_name, run)
            IN IF r.exc = "" THEN r
               ELSE IF r.exc \in ExceptionSubclasses \cup {"JSONDecodeError"}
                    THEN Verdict("", TRUE, TRUE)
               ELSE r

(***************************************************************************)
(* Inputs of verify_channel: titles of at most MaxTitleWords words, and    *)
(* inspections whose lists hold at most MaxEntries entries.                *)
(***************************************************************************)
MaxTitleWords == 3

MaxEntries == 1

TitleWords == {<<"h", "b", "o">>, <<"t", "v">>, <<"n", "e", "w", "s">>}

RECURSIVE Phrases(_)
Phrases(n) ==
    IF n = 0 THEN {<<>>}
    ELSE LET shorter == Phrases(n - 1)
         IN shorter \cup TitleWords \cup {s \o <<" ">> \o w : s \in shorter \ {<<>>}, w \in TitleWords}

VerifyTitles ==
    Phrases(MaxTitleWords) \cup
    { <<"C", "C", "T", "V", "-", "1", " ", "u7efc", "u5408">>,
      <<"u592e", "u89c6", " ", "t", "v">>,
      <<"T", "v">> }

Shop == <<"S", "h", "o", "p">>

CctvHbo == <<"C", "C", "T", "V", " ", "h", "b", "o">>

ProgramEntries ==
    {NoTags, Entry(<<<<>>>>, <<>>), Entry(<<Shop>>, <<>>), Entry(<<CctvHbo>>, <<>>)}

StreamEntries ==
    {NoTags, Entry(<<>>, <<Shop>>), Entry(<<CctvHbo>>, <<>>)}

RECURSIVE ListsOf(_, _)
ListsOf(S, n) ==
    IF n = 0 THEN {<<>>}
    ELSE LET shorter == ListsOf(S, n - 1)
         IN shorter \cup {Append(l, e) : l \in shorter, e \in S}

InspectionData ==
    {[keys |-> ks, programs |-> ps, streams |-> ss] :
        ks \in SUBSET {"programs", "streams"},
        ps \in ListsOf(ProgramEntries, MaxEntries),
        ss \in ListsOf(StreamEntries, MaxEntries)}

NoData == [keys |-> {}, programs |-> <<>>, streams |-> <<>>]

\* a key that is absent has no list
WellFormedData == {d \in InspectionData :
                      /\ "programs" \notin d.keys => d.programs = <<>>
                      /\ "streams" \notin d.keys => d.streams = <<>>}

VerifyRuns ==
    {[kind |-> "timeout", returncode |-> 0, parses |-> FALSE, data |-> NoData],
     [kind |-> "oserror", returncode |-> 0, parses |-> FALSE, data |-> NoData],
     [kind |-> "completed", returncode |-> 1, parses |-> FALSE, data |-> NoData],
     [kind |-> "completed", returncode |-> 0, parses |-> FALSE, data |-> NoData]}
    \cup {[kind |-> "completed", returncode |-> 0, parses |-> TRUE, data |-> d] :
             d \in WellFormedData}


(***************************************************************************)
(* IPTVSourceChecker.check.  channels and self.results are dicts: a        *)
(* sequence of entries in insertion order, no id twice.  A future is       *)
(* queued, running or done; a done future holds what the callable          *)
(* returned, or the exception that escaped it.                             *)
(***************************************************************************)
ChannelIds == <<"a", "b">>

URLs == {"u1", "u2"}

\* info: the attributes parsed for a channel id (title only)
InfoOf(id) ==
    IF id = "a" THEN [title |-> <<"C", "C", "T", "V", "1">>]
    ELSE [title |-> <<"h", "b", "o">>]

Keys(d) == {d[i].id : i \in 1..Len(d)}

\* d[id], for id in Keys(d)
Get(d, id) == d[CHOOSE i \in 1..Len(d) : d[i].id = id]

\* lines 23-26: check_tasks
RECURSIVE check_tasks(_)
check_tasks(channels) ==
    IF channels = <<>> THEN <<>>
    ELSE LET c == channels[1]
         IN [i \in 1..Len(c.urls) |-> [channel_id |-> c.id, info |-> c.info, url |-> c.urls[i]]]
            \o check_tasks(Tail(channels))

\* the inspections a probe task may meet: a timeout, or a stream found after 1
\* or MaxLatency time units
TaskRuns ==
    {[kind |-> "timeout", returncode |-> 0, stdout |-> <<>>, elapsed |-> 0]}
    \cup [kind : {"completed"}, returncode : {0}, stdout : {StreamsJson(1)},
          elapsed : {1, MaxLatency}]

\* what a done future holds: the return value of _check_source, or an
\* exception that escaped the callable (_check_source absorbs every Exception
\* of its try body; the handler of line 47 is for any other)
TaskOutcomes(config) ==
    {check_source(config, run) : run \in TaskRuns} \cup {Raised("RuntimeError")}

\* lines 36-48, with a handler that records the failed task as invalid
store_result_synthesized(results, task, out) ==
    LET tuple == IF out.exc # "" THEN <<task.url, FALSE, Inf>>
                 ELSE <<task.url, out.is_valid, out.latency>>
        base == IF task.channel_id \in Keys(results) THEN results
                ELSE Append(results, [id |-> task.channel_id, info |-> task.info,
                                      sources |-> <<>>])
    IN [i \in 1..Len(base) |->
           IF base[i].id = task.channel_id
           THEN [base[i] EXCEPT !.sources = Append(@, tuple)]
           ELSE base[i]]

\* lines 36-48: future.result() and what is done with it
store_result(results, task, out) ==
    IF out.exc # "" THEN results
    ELSE LET base == IF task.channel_id \in Keys(results) THEN results
                     ELSE Append(results, [id |-> task.channel_id, info |-> task.info,
                                           sources |-> <<>>])
         IN [i \in 1..Len(base) |->
                IF base[i].id = task.channel_id
                THEN [base[i] EXCEPT !.sources = Append(@, <<task.url, out.is_valid, out.latency>>)]
                ELSE base[i]]

(***************************************************************************)
(* Inputs of check: every mapping of the ids, in the order of ChannelIds,  *)
(* to url lists with at most MaxTasks urls in all.                         *)
(***************************************************************************)
MaxTasks == 2

MaxWorkers == 2

MaxCalls == 2

RECURSIVE ChannelMaps(_, _)
\* the mappings of ids k.. with at most n urls
ChannelMaps(k, n) ==
    IF k > Len(ChannelIds) THEN {<<>>}
    ELSE LET rest(m) == ChannelMaps(k + 1, m)
         IN rest(n) \cup
            UNION {{<<[id |-> ChannelIds[k], info |-> InfoOf(ChannelIds[k]), urls |-> us]>> \o r :
                       r \in rest(n - Len(us))} : us \in ListsOf(URLs, n)}

ChannelInputs == ChannelMaps(1, MaxTasks)


(***************************************************************************)
(* IPTVSourceMerger.merge.  check_results is a dict (a sequence of entries *)
(* [id, info, sources] in insertion order); info holds the title and the   *)
(* group-title ("" when the key is absent); a source is the tuple          *)
(* <<url, is_valid, latency>>.                                             *)
(***************************************************************************)
\* config["categories"]
categories == <<"News", "Sports">>

\* the place of q[i] after a stable sort of q by keys, keys[i] being the key
\* of q[i]: behind the elements of smaller key and the earlier ones of equal key
Rank(keys, i) ==
    Cardinality({j \in 1..Len(keys) : keys[j] < keys[i] \/ (keys[j] = keys[i] /\ j <= i)})

\* sorted(q, key=...) and q.sort(key=...); both are stable
SortByKey(q, keys) ==
    [p \in 1..Len(q) |-> q[CHOOSE i \in 1..Len(q) : Rank(keys, i) = p]]

\* lines 203-208: the info of a record after its title was normalized
normalized_info(info) == [info EXCEPT !.title = normalize_channel_name(@)]

\* lines 211-218: the sources of one record that are valid and that
\* verify_channel accepts under the normalized title, in their order
valid_sources(title, sources, runs) ==
    SelectSeq([j \in 1..Len(sources) |->
                  [url |-> sources[j][1], is_valid |-> sources[j][2],
                   latency |-> sources[j][3], run |-> runs[j]]],
              LAMBDA x : x.is_valid /\ verify_channel(title, x.run).is_verified)

\* lines 220-235: <<>> when the record is skipped, else the candidate it
\* appends to channels_by_name
best_of(info, valid) ==
    IF valid = <<>> THEN <<>>
    ELSE LET best == SortByKey(valid, [i \in 1..Len(valid) |-> valid[i].latency])[1]
         IN <<[name |-> info.title, info |-> info,
               source |-> best.url, latency |-> best.latency]>>

\* a record without a surviving source is kept, with an empty source
record_best_keep_all(rec, runs) ==
    CHOOSE b \in UNION { { IF v = <<>>
                           THEN <<[name |-> info.title, info |-> info,
                                   source |-> <<>>, latency |-> Inf]>>
                           ELSE best_of(info, v) :
                           v \in {valid_sources(info.title, rec.sources, runs)} } :
                         info \in {normalized_info(rec.info)} } : TRUE

\* lines 201-235, the body of the first loop for one record and the
\* inspections runs of its sources: the title is normalized once, then the
\* sources are filtered under it, then the best one is taken
record_best(rec, runs) ==
    CHOOSE b \in UNION { { best_of(info, v) :
                           v \in {valid_sources(info.title, rec.sources, runs)} } :
                         info \in {normalized_info(rec.info)} } : TRUE

RECURSIVE collect_best(_, _, _)
\* the candidates appended to channels_by_name by the records k.. in their order
collect_best(results, inspect, k) ==
    IF k > Len(results) THEN <<>>
    ELSE record_best(results[k], inspect[k]) \o collect_best(results, inspect, k + 1)

\* the keys of channels_by_name in insertion order
FirstSeen(cands) ==
    LET firsts == SelectSeq([i \in 1..Len(cands) |-> i],
                            LAMBDA i : \A j \in 1..(i - 1) : cands[j].name # cands[i].name)
    IN [n \in 1..Len(firsts) |-> cands[firsts[n]].name]

\* the second loop keeps the candidate with the greatest latency
final_channels_slowest(cands) ==
    LET names == FirstSeen(cands)
    IN [n \in 1..Len(names) |->
           LET sources == SelectSeq(cands, LAMBDA c : c.name = names[n])
           IN SortByKey(sources, [i \in 1..Len(sources) |-> 0 - sources[i].latency])[1]]

\* lines 238-245: per name, the candidates sorted by latency; the first is kept
final_channels(cands) ==
    LET names == FirstSeen(cands)
    IN [n \in 1..Len(names) |->
           LET sources == SelectSeq(cands, LAMBDA c : c.name = names[n])
           IN SortByKey(sources, [i \in 1..Len(sources) |-> sources[i].latency])[1]]

\* the position of x in the sequence q, Len(q) + 1 when it is not there
IndexOf(q, x) ==
    IF \E i \in 1..Len(q) : q[i] = x
    THEN CHOOSE i \in 1..Len(q) : q[i] = x /\ \A j \in 1..(i - 1) : q[j] # x
    ELSE Len(q) + 1

\* info.get("group-title", "其他")
GroupOf(info) == IF info.group = "" THEN "u5176u4ed6" ELSE info.group

\* unknown and missing categories are put first: default_order = -1
sort_channels_by_category_unknown_first(channels) ==
    SortByKey(channels, [i \in 1..Len(channels) |->
                            LET r == IndexOf(categories, GroupOf(channels[i].info))
                            IN IF r > Len(categories) THEN 0 ELSE r])

\* lines 269-281: _sort_channels_by_category
sort_channels_by_category(channels) ==
    SortByKey(channels, [i \in 1..Len(channels) |->
                            IndexOf(categories, GroupOf(channels[i].info))])

\* lines 283-294 and 263-264: the two lines written for one channel
written_entry(data) ==
    [title |-> data.info.title, group |-> data.info.group, source |-> data.source]

\* lines 256-264: the entries written for the sorted channels
written_entries(sorted_channels) ==
    [i \in 1..Len(sorted_channels) |-> written_entry(sorted_channels[i])]

\* lines 193-264: the entries merge writes after the header; the first loop
\* runs once, then the second loop on its candidates, then the sort and the
\* writing on the channels kept
merge_file(results, inspect) ==
    CHOOSE out \in UNION { { written_entries(sort_channels_by_category(fc)) :
                             fc \in {final_channels(c)} } :
                           c \in {collect_best(results, inspect, 1)} } : TRUE

(***************************************************************************)
(* Inputs of merge: for each id of ChannelIds, in that order, no record or *)
(* a record with one of MergeInfos, with at most MaxSources sources in all. *)
(***************************************************************************)
MaxSources == 3

MergeInfos ==
    { [title |-> <<"C", "C", "T", "V", "1">>, group |-> "News"],
      [title |-> <<"c", "c", "t", "v", "-", "1", " ", "H", "D">>, group |-> "Sports"],
      [title |-> <<"t", "v">>, group |-> ""] }

\* the inspection of verify_channel fails (and verification is passed)
RunFails == [kind |-> "oserror", returncode |-> 0, parses |-> FALSE, data |-> NoData]

\* the inspection of verify_channel reports a program named n
RunNamed(n) ==
    [kind |-> "completed", returncode |-> 0, parses |-> TRUE,
     data |-> [keys |-> {"programs"}, programs |-> <<Entry(<<n>>, <<>>)>>, streams |-> <<>>]]

\* what a source can be: the outcome of its probe (_check_source) and of the
\* inspection verify_channel would make of it
SourceKinds ==
    { [is_valid |-> TRUE, latency |-> 1, run |-> RunFails],
      [is_valid |-> TRUE, latency |-> MaxLatency, run |-> RunFails],
      [is_valid |-> TRUE, latency |-> 1, run |-> RunNamed(Shop)],
      [is_valid |-> FALSE, latency |-> 1, run |-> RunFails],
      [is_valid |-> FALSE, latency |-> Inf, run |-> RunFails] }

\* no record of the id, or one with at most n sources: sequences of
\* [id, info, kinds] of length 0 or 1
RecordChoices(id, n) ==
    {<<>>} \cup {<<[id |-> id, info |-> i, kinds |-> ks]>> :
                    i \in MergeInfos, ks \in ListsOf(SourceKinds, n)}

\* the number of sources in the records recs
RECURSIVE SourceCount(_)
SourceCount(recs) ==
    IF recs = <<>> THEN 0 ELSE Len(recs[1].kinds) + SourceCount(Tail(recs))

\* check_results: the j-th source of a record has the url <<id, j>>
ResultsOf(recs) ==
    [k \in 1..Len(recs) |->
        [id |-> recs[k].id, info |-> recs[k].info,
         sources |-> [j \in 1..Len(recs[k].kinds) |->
                         <<<<recs[k].id, j>>, recs[k].kinds[j].is_valid,
                           recs[k].kinds[j].latency>>]]]

InspectOf(recs) ==
    [k \in 1..Len(recs) |-> [j \in 1..Len(recs[k].kinds) |-> recs[k].kinds[j].run]]

(***************************************************************************)
(* The category sort of the two resolvers.  A channel is a record with the *)
(* fields name, info, source and latency, as final_channels makes them.    *)
(***************************************************************************)
\* src/main.py sort_channels_by_category(channels, config): the list is
\* config.get("categories", []) and channels.items() is in insertion order
main_sort_channels_by_category(channels, config) ==
    LET category_order == IF "categories" \in config THEN categories ELSE <<>>
    IN SortByKey(channels, [i \in 1..Len(channels) |->
                               IndexOf(category_order, GroupOf(channels[i].info))])

MaxChannels == 3

\* the titles of the channels handed to the sort, all different
SortTitles == <<"v", "w", "x", "y", "z">>

\* group-title values: two configured ones, one that is not configured, the
\* default of a missing key written out, and "" for a missing key
SortGroups == {"News", "Sports", "Kids", ""}

\* the channel lists of length n: the i-th has the i-th title
SortInputs(n) ==
    { [i \in 1..n |-> [name |-> <<SortTitles[i]>>,
                       info |-> [title |-> <<SortTitles[i]>>, group |-> g[i]],
                       source |-> <<SortTitles[i], 1>>, latency |-> 1]] :
      g \in [1..n -> SortGroups] }

(***************************************************************************)
(* src/main.py: the resolver of the second entry point.  Its input is the  *)
(* serializable form of the check results: a source is a record with the   *)
(* fields url, valid and latency, an infinite latency being written -1.    *)
(***************************************************************************)
\* what lines 446-455 write for float('inf')
Sentinel == 0 - 1

\* lines 447-455: serializable_results
serializable_results(check_results) ==
    [k \in 1..Len(check_results) |->
        [id |-> check_results[k].id, info |-> check_results[k].info,
         sources |-> [j \in 1..Len(check_results[k].sources) |->
                         [url |-> check_results[k].sources[j][1],
                          valid |-> check_results[k].sources[j][2],
                          latency |-> IF check_results[k].sources[j][3] = Inf
                                      THEN Sentinel
                                      ELSE check_results[k].sources[j][3]]]]]

\* every source takes part in the comparison, valid or not
organize_record_unfiltered(channels_by_name, data) ==
    IF data.info.title = <<>> \/ data.sources = <<>> THEN channels_by_name
    ELSE LET best == SortByKey(data.sources,
                               [i \in 1..Len(data.sources) |-> data.sources[i].latency])[1]
             entry == [name |-> data.info.title, info |-> data.info,
                       source |-> best.url, latency |-> best.latency]
         IN IF \E i \in 1..Len(channels_by_name) : channels_by_name[i].name = entry.name
            THEN [i \in 1..Len(channels_by_name) |->
                     IF /\ channels_by_name[i].name = entry.name
                        /\ entry.latency < channels_by_name[i].latency
                     THEN entry ELSE channels_by_name[i]]
            ELSE Append(channels_by_name, entry)

\* a later record of the same latency replaces the one kept: <= for <
organize_record_last_wins(channels_by_name, data) ==
    LET valid_sources_ == SelectSeq(data.sources, LAMBDA x : x.valid)
    IN IF data.info.title = <<>> \/ valid_sources_ = <<>> THEN channels_by_name
       ELSE LET best == SortByKey(valid_sources_,
                                  [i \in 1..Len(valid_sources_) |-> valid_sources_[i].latency])[1]
                entry == [name |-> data.info.title, info |-> data.info,
                          source |-> best.url, latency |-> best.latency]
            IN IF \E i \in 1..Len(channels_by_name) : channels_by_name[i].name = entry.name
               THEN [i \in 1..Len(channels_by_name) |->
                        IF /\ channels_by_name[i].name = entry.name
                           /\ entry.latency <= channels_by_name[i].latency
                        THEN entry ELSE channels_by_name[i]]
               ELSE Append(channels_by_name, entry)

\* lines 297-337, the body of the loop of organize_channels for one record:
\* channels_by_name (in insertion order) after the record data
organize_record(channels_by_name, data) ==
    LET valid_sources_ == SelectSeq(data.sources, LAMBDA x : x.valid)
    IN IF data.info.title = <<>> \/ valid_sources_ = <<>> THEN channels_by_name
       ELSE LET best == SortByKey(valid_sources_,
                                  [i \in 1..Len(valid_sources_) |-> valid_sources_[i].latency])[1]
                entry == [name |-> data.info.title, info |-> data.info,
                          source |-> best.url, latency |-> best.latency]
            IN IF \E i \in 1..Len(channels_by_name) : channels_by_name[i].name = entry.name
               THEN [i \in 1..Len(channels_by_name) |->
                        IF /\ channels_by_name[i].name = entry.name
                           /\ entry.latency < channels_by_name[i].latency
                        THEN entry ELSE channels_by_name[i]]
               ELSE Append(channels_by_name, entry)

RECURSIVE organize_upto(_, _)
\* channels_by_name after the first k records of sources_data
organize_upto(sources_data, k) ==
    IF k = 0 THEN <<>>
    ELSE CHOOSE c \in {organize_record(before, sources_data[k]) :
                          before \in {organize_upto(sources_data, k - 1)}} : TRUE

\* lines 290-340: organize_channels
organize_channels(sources_data) == organize_upto(sources_data, Len(sources_data))

(***************************************************************************)
(* The two entry points: main of src/main.py ("main") and main of          *)
(* src/src/main.py ("src_main").  A source file is a sequence of entries,  *)
(* an entry being an EXTINF line with its URL line: [id, url], where id is *)
(* the tvg-id of the line and RunInfo(id) the attributes parsed from it.   *)
(***************************************************************************)
RunInfo(id) ==
    IF id = "a" THEN [title |-> <<"C", "C", "T", "V", "1">>, group |-> "News"]
    ELSE [title |-> <<"c", "c", "t", "v", "-", "1", " ", "H", "D">>, group |-> "Sports"]

RECURSIVE Flatten(_)
\* the concatenation of the sequences of qs
Flatten(qs) == IF qs = <<>> THEN <<>> ELSE qs[1] \o Flatten(Tail(qs))

\* items is a sequence of [id, info, urls]: one record per id in the order of
\* first occurrence, with the info of the first occurrence and the urls of
\* all occurrences in their order (the "if channel_id in ..." of both loops)
group_by_id(items) ==
    LET firsts == SelectSeq([i \in 1..Len(items) |-> i],
                            LAMBDA i : \A j \in 1..(i - 1) : items[j].id # items[i].id)
    IN [n \in 1..Len(firsts) |->
           [id |-> items[firsts[n]].id, info |-> items[firsts[n]].info,
            urls |-> Flatten(LET same == SelectSeq(items, LAMBDA x : x.id = items[firsts[n]].id)
                             IN [k \in 1..Len(same) |-> same[k].urls])]]

\* parse_m3u_file: the channels of one file
parse_m3u_file(file) ==
    group_by_id([i \in 1..Len(file) |->
                    [id |-> file[i].id, info |-> RunInfo(file[i].id), urls |-> <<file[i].url>>]])

\* the loop over source_files of both mains: all_channels
all_channels(files) ==
    group_by_id(Flatten([f \in 1..Len(files) |-> parse_m3u_file(files[f])]))

\* the sequences that hold every element of the set S once: what list(set(urls))
\* can be, the iteration order of a set of str being arbitrary
Orders(S) ==
    {q \in [1..Cardinality(S) -> S] : \A x \in S : \E i \in 1..Cardinality(S) : q[i] = x}

Range(q) == {q[i] : i \in 1..Len(q)}

\* src/main.py lines 432-434: the channel maps the deduplication can produce
deduplicated(channels) ==
    {d \in [1..Len(channels) -> [id : {"a", "b"}, info : {RunInfo("a"), RunInfo("b")},
                                 urls : UNION {Orders(S) : S \in SUBSET URLs}]] :
        \A k \in 1..Len(channels) :
            /\ d[k].id = channels[k].id
            /\ d[k].info = channels[k].info
            /\ d[k].urls \in Orders(Range(channels[k].urls))}

\* re.search(pattern, s): a match that starts anywhere in s
re_search(pat, s) == \E j \in 1..(Len(s) + 1) : MatchAt(pat, 1, s, j)

RECURSIVE first_search(_, _)
first_search(name_lower, i) ==
    IF i > Len(channel_name_map) THEN 0
    ELSE IF re_search(channel_name_map[i].pat, name_lower) THEN i
    ELSE first_search(name_lower, i + 1)

\* src/main.py normalize_channel_name(name, config); config["channel_name_map"],
\* when the key is there, is taken to hold the rules of the merger's table
main_normalize_channel_name(name, config) ==
    IF name = <<>> THEN name
    ELSE IF "channel_name_map" \notin config THEN name
    ELSE LET first == first_search(lower(name), 1)
         IN IF first = 0 THEN name ELSE channel_name_map[first].canon

\* src/main.py match_channels_with_epg, as far as titles go: without EPG data
\* it returns at line 200, else it normalizes every title (lines 233-240)
match_channels_with_epg(sources_data, epg_data, config) ==
    IF ~epg_data THEN sources_data
    ELSE [k \in 1..Len(sources_data) |->
             [sources_data[k] EXCEPT
                 !.info.title = main_normalize_channel_name(@, config)]]

\* what happens to the ffprobe processes of one URL: the probe of
\* _check_source and the inspection of verify_channel
World(p1, i1, p2, i2) ==
    [u \in URLs |-> IF u = "u1" THEN [probe |-> p1, inspect |-> i1]
                    ELSE [probe |-> p2, inspect |-> i2]]

ProbeFound(t) ==
    [kind |-> "completed", returncode |-> 0, stdout |-> StreamsJson(1), elapsed |-> t]

ProbeTimeout == [kind |-> "timeout", returncode |-> 0, stdout |-> <<>>, elapsed |-> 0]

RunWorlds ==
    { World(ProbeFound(MaxLatency), RunFails, ProbeFound(1), RunFails),
      World(ProbeTimeout, RunFails, ProbeFound(1), RunNamed(Shop)) }

RECURSIVE check_upto(_, _, _, _)
\* self.results of a fresh checker after the loop of lines 34-50 has handled
\* the first k futures: future.result() is the outcome of _check_source
check_upto(config, tasks, world, k) ==
    IF k = 0 THEN <<>>
    ELSE CHOOSE r \in {store_result(before, tasks[k],
                                    check_source(config, world[tasks[k].url].probe)) :
                          before \in {check_upto(config, tasks, world, k - 1)}} : TRUE

\* lines 18-53: what check returns on a fresh checker
check_returns(config, channels, world) ==
    CHOOSE r \in {check_upto(config, tasks, world, Len(tasks)) :
                     tasks \in {check_tasks(channels)}} : TRUE

\* the ffprobe processes the probes of check start: none when line 72 raises
\* KeyError while the arguments of subprocess.run are evaluated
probes_started(config, channels) ==
    IF "check_timeout" \in config THEN Len(check_tasks(channels)) ELSE 0

\* src/src/main.py lines 146-151: the results made up with --no-check
unchecked_results(channels) ==
    [k \in 1..Len(channels) |->
        [id |-> channels[k].id, info |-> channels[k].info,
         sources |-> [j \in 1..Len(channels[k].urls) |-> <<channels[k].urls[j], TRUE, 0>>]]]

\* the inspections verify_channel meets on the sources of check_results
inspections(check_results, world) ==
    [k \in 1..Len(check_results) |->
        [j \in 1..Len(check_results[k].sources) |->
            world[check_results[k].sources[j][1]].inspect]]

\* src/main.py lines 446-479: the entries of the playlist written from the
\* check results; epg_data tells whether download_and_parse_epg found data
main_file(check_results, no_epg, epg_data, config) ==
    CHOOSE out \in
        UNION { { written_entries(main_sort_channels_by_category(oc, config)) :
                  oc \in {organize_channels(sd)} } :
                sd \in {IF no_epg THEN serializable_results(check_results)
                        ELSE match_channels_with_epg(serializable_results(check_results),
                                                     epg_data, config)} } : TRUE

MaxLines == 2

RunEntries == [id : {"a", "b"}, url : URLs]

\* the keys of config.json that the two mains and their classes read
RunConfigKeys == ConfigKeys \cup {"channel_name_map"}

\* two source files with at most n entries in all
RunFiles(n) ==
    UNION { { <<f1, f2>> : f2 \in ListsOf(RunEntries, n - Len(f1)) } :
            f1 \in ListsOf(RunEntries, n) }

(***************************************************************************)
(* parse_m3u_file line by line (the same code in src/main.py and           *)
(* src/src/main.py).  A file is [header, body]: header tells whether       *)
(* lines[0] starts with #EXTM3U and body[i] is the stripped lines[i]:      *)
(* an #EXTINF line with the channel id parse_extinf gives ("" when none),  *)
(* another line starting with #, an empty line, or any other line (a URL). *)
(***************************************************************************)
ParseLines ==
    [kind : {"extinf"}, id : {"a", "b", ""}] \cup [kind : {"url"}, url : URLs]
    \cup {[kind |-> "comment"], [kind |-> "blank"]}

RECURSIVE find_url(_, _)
\* the inner loop: the first j at or after the given one whose line is
\* neither empty nor starts with #; 0 when the lines end first
find_url(body, j) ==
    IF j > Len(body) THEN 0
    ELSE IF body[j].kind = "url" THEN j
    ELSE find_url(body, j + 1)

RECURSIVE parse_pairs(_, _)
\* the outer loop from i on: the <<i, j>> at which a url is stored, lines[i]
\* being the #EXTINF line and lines[j] the line taken as its URL
parse_pairs(body, i) ==
    IF i > Len(body) THEN <<>>
    ELSE IF body[i].kind = "extinf" /\ body[i].id # ""
    THEN LET j == find_url(body, i + 1)
         IN IF j # 0 THEN <<<<i, j>>>> \o parse_pairs(body, j + 1)
            ELSE parse_pairs(body, i + 1)
    ELSE parse_pairs(body, i + 1)

\* parse_m3u_file on the lines of a file: the channels returned, with the
\* line pairs they were made from
parse_m3u_lines(file) ==
    IF ~file.header THEN [channels |-> <<>>, pairs |-> <<>>]
    ELSE LET pairs == parse_pairs(file.body, 1)
         IN [channels |->
                group_by_id([n \in 1..Len(pairs) |->
                    [id |-> file.body[pairs[n][1]].id,
                     info |-> RunInfo(file.body[pairs[n][1]].id),
                     urls |-> <<file.body[pairs[n][2]].url>>]]),
             pairs |-> pairs]

MaxFileLines == 4

(***************************************************************************)
(* Each specification below runs one component; the variables of the other *)
(* components keep these values.                                           *)
(***************************************************************************)
NormIdle ==
    /\ nName = <<>>
    /\ nOut = <<>>

ProbeIdle ==
    /\ pConfig = ConfigKeys
    /\ pRun = [kind |-> "timeout", returncode |-> 0, stdout |-> <<>>, elapsed |-> 0]
    /\ pRes = <<>>

VerifyIdle ==
    /\ vTitle = <<>>
    /\ vRun = [kind |-> "timeout", returncode |-> 0, parses |-> FALSE, data |-> NoData]
    /\ vRes = <<>>

CheckIdle ==
    /\ cConfig = [keys |-> ConfigKeys, max_workers |-> 1]
    /\ cResults = <<>>
    /\ cChannels = <<>>
    /\ cFutures = <<>>
    /\ cPc = "idle"
    /\ cIdx = 1
    /\ cCalls = 0

MergeIdle ==
    /\ mConfig = ConfigKeys
    /\ mResults = <<>>
    /\ mInspect = <<>>
    /\ mPc = "ready"
    /\ mFile = <<>>

SortIdle ==
    /\ sConfig = ConfigKeys
    /\ sIn = <<>>
    /\ sOut = <<>>

RunIdle ==
    /\ rEntry = "main"
    /\ rArgs = [no_check |-> FALSE, no_epg |-> FALSE]
    /\ rConfig = RunConfigKeys
    /\ rFiles = <<>>
    /\ rWorld = <<>>
    /\ rEpg = FALSE
    /\ rPc = "start"
    /\ rChannels = <<>>
    /\ rProbes = 0
    /\ rResults = <<>>
    /\ rFile = <<>>

OrganizeIdle ==
    /\ oPc = "off"
    /\ oOut = <<>>

WorldIdle ==
    /\ wOutcomes = <<>>
    /\ wFinished = <<>>

ParseIdle ==
    /\ fFile = [header |-> TRUE, body |-> <<>>]
    /\ fPc = "off"
    /\ fOut = <<>>

(***************************************************************************)
(* Specification of the probe executor: one call of _check_source.         *)
(***************************************************************************)
InitProbe ==
    /\ pConfig \in {ConfigKeys, ConfigKeys \ {"check_timeout"}}
    /\ pRun \in Runs
    /\ pRes = <<>>
    /\ NormIdle
    /\ VerifyIdle
    /\ CheckIdle
    /\ MergeIdle
    /\ SortIdle
    /\ RunIdle
    /\ OrganizeIdle
    /\ WorldIdle
    /\ ParseIdle

CheckSourceCall ==
    /\ pRes = <<>>
    /\ pRes' = <<check_source(pConfig, pRun)>>
    /\ UNCHANGED <<pConfig, pRun, normVars, verifyVars, checkVars, mergeVars, sortVars, runVars, organizeVars, worldVars, parseVars>>

NextProbe == CheckSourceCall

SpecProbe == InitProbe /\ [][NextProbe]_vars

\* the inspection was launched and finished within the timeout
ProbeCompleted == "check_timeout" \in pConfig /\ pRun.kind = "completed"

\* C3: _check_source returns is_valid = true if and only if the inspection
\* finished within the timeout with exit status 0 and its response reports at
\* least one video stream.
C3_ValidIffStreamFound ==
    pRes # <<>> =>
        (pRes[1].is_valid <=> /\ ProbeCompleted
                              /\ pRun.returncode = 0
                              /\ StreamCount(pRun.stdout) >= 1)

\* C4 as claimed: _check_source never raises, every failure (timeout, launch
\* failure, non-zero exit, malformed response) returns (false, infinite), and so
\* every returned pair with is_valid = false has latency = infinite.
C4_FailureIsInfinite ==
    pRes # <<>> =>
        /\ pRes[1].exc = ""
        /\ ~pRes[1].is_valid => pRes[1].latency = Inf

\* C4 as amended: _check_source never raises; it returns (false, infinite)
\* exactly when the inspection raised (timeout, launch failure, missing
\* configuration key); when the inspection completed it returns the measured
\* latency, also with is_valid = false (non-zero exit, response without the
\* "streams" key).
C4_RaisedIsInfinite ==
    pRes # <<>> =>
        /\ pRes[1].exc = ""
        /\ ~ProbeCompleted => (~pRes[1].is_valid /\ pRes[1].latency = Inf)
        /\ ProbeCompleted => pRes[1].latency = pRun.elapsed
        /\ (ProbeCompleted /\ (pRun.returncode # 0 \/ pRun.stdout \in {<<>>, <<"{", "}">>, <<"not json">>}))
              => ~pRes[1].is_valid

\* an inspection that exited with a non-zero status returned is_valid = false
\* with its measured latency
C4_Witness ==
    /\ pRes # <<>>
    /\ ProbeCompleted
    /\ pRun.returncode = 1
    /\ pRes[1] = Returned(FALSE, pRun.elapsed)

(***************************************************************************)
(* Specification of the normalizer: a caller normalizes a name and then    *)
(* normalizes what it got back.                                            *)
(***************************************************************************)
MaxNormCalls == 2

InitNormalize ==
    /\ nName \in Names
    /\ nOut = <<>>
    /\ ProbeIdle
    /\ VerifyIdle
    /\ CheckIdle
    /\ MergeIdle
    /\ SortIdle
    /\ RunIdle
    /\ OrganizeIdle
    /\ WorldIdle
    /\ ParseIdle

NormalizeCall ==
    /\ Len(nOut) < MaxNormCalls
    /\ nOut' = Append(nOut, normalize_channel_name(
                                IF nOut = <<>> THEN nName ELSE nOut[Len(nOut)]))
    /\ UNCHANGED <<nName, probeVars, verifyVars, checkVars, mergeVars, sortVars, runVars, organizeVars, worldVars, parseVars>>

NextNormalize == NormalizeCall

SpecNormalize == InitNormalize /\ [][NextNormalize]_vars

\* C10: normalize_channel_name is total (a call returns a str for every name;
\* the empty name comes back unchanged) and idempotent (normalizing a returned
\* name gives that name again).
C10_NormalizeTotalIdempotent ==
    /\ \A i \in 1..Len(nOut) : IsStr(nOut[i])
    /\ (Len(nOut) >= 1 /\ nName = <<>>) => nOut[1] = <<>>
    /\ \A i \in 2..Len(nOut) : nOut[i] = nOut[i - 1]

\* a name that a rule rewrote has been normalized a second time
C10_Witness ==
    /\ Len(nOut) >= 2
    /\ nOut[1] # nName

\* C17: every canonical name of the rule table is a fixed point of
\* normalize_channel_name: a call on the right-hand side of a rule returns it.
C17_CanonicalNamesFixed ==
    (nName \in CanonicalNames /\ Len(nOut) >= 1) => nOut[1] = nName

(***************************************************************************)
(* Specification of the identity verifier: one call of verify_channel.     *)
(***************************************************************************)
InitVerify ==
    /\ vTitle \in VerifyTitles
    /\ vRun \in VerifyRuns
    /\ vRes = <<>>
    /\ NormIdle
    /\ ProbeIdle
    /\ CheckIdle
    /\ MergeIdle
    /\ SortIdle
    /\ RunIdle
    /\ OrganizeIdle
    /\ WorldIdle
    /\ ParseIdle

VerifyChannelCall ==
    /\ vRes = <<>>
    /\ vRes' = <<verify_channel(vTitle, vRun)>>
    /\ UNCHANGED <<vTitle, vRun, normVars, probeVars, checkVars, mergeVars, sortVars, runVars, organizeVars, worldVars, parseVars>>

NextVerify == VerifyChannelCall

SpecVerify == InitVerify /\ [][NextVerify]_vars

\* the inspection raised, timed out, exited with a non-zero status or returned
\* output that cannot be parsed
InspectionFailed ==
    \/ vRun.kind \in {"timeout", "oserror"}
    \/ vRun.returncode # 0
    \/ ~vRun.parses

\* the name verify_channel recovers from a successful inspection: <<>> if none
RecoveredName ==
    IF InspectionFailed THEN <<>>
    ELSE LET a == ActualName(vRun.data)
         IN IF a # <<>> /\ a[1] # <<>> THEN a ELSE <<>>

\* C7: fail-open.  For a title that triggers verification, an inspection that
\* raises, times out, exits with a non-zero status or returns unparsable
\* output ends in is_verified = true, and nothing is raised to the caller.
C7_FailOpen ==
    (vRes # <<>> /\ need_verification(lower(vTitle)) /\ InspectionFailed) =>
        /\ vRes[1].exc = ""
        /\ vRes[1].is_verified

\* a triggered verification whose inspection raised has returned
C7_Witness ==
    /\ vRes # <<>>
    /\ need_verification(lower(vTitle))
    /\ vRun.kind = "oserror"
    /\ vRes[1].launched

\* C8: when an actual name is recovered and the word-token sets of the declared
\* name and of the actual name are disjoint, verification fails, whatever the
\* number of tokens of the declared name.
C8_DisjointTokensFail ==
    (/\ vRes # <<>>
     /\ vRes[1].launched
     /\ RecoveredName # <<>>
     /\ Tokens(lower(vTitle)) \cap Tokens(lower(RecoveredName[1])) = {}) =>
        ~vRes[1].is_verified

\* C9: an inspection is launched only for a title that, lower-cased, contains a
\* suspicion keyword, 'cctv' or the two characters of the national broadcaster;
\* every other title is verified without an inspection.
C9_InspectOnlySuspicious ==
    vRes # <<>> =>
        /\ vRes[1].launched => need_verification(lower(vTitle))
        /\ ~need_verification(lower(vTitle)) =>
              (vRes[1].is_verified /\ ~vRes[1].launched /\ vRes[1].exc = "")

\* a title without any keyword was verified without an inspection although the
\* stream names another channel
C9_Witness ==
    /\ vRes # <<>>
    /\ ~need_verification(lower(vTitle))
    /\ vTitle # <<>>
    /\ vRun.kind = "completed" /\ vRun.returncode = 0 /\ vRun.parses
    /\ ActualName(vRun.data) = <<Shop>>
    /\ vRes[1] = Verdict("", FALSE, TRUE)

(***************************************************************************)
(* Specification of the concurrent checker: calls of check on one          *)
(* IPTVSourceChecker, the worker threads of its pool running the tasks.    *)
(***************************************************************************)
InitCheck ==
    /\ cConfig \in [keys : {ConfigKeys, ConfigKeys \ {"max_workers"}},
                    max_workers : 1..MaxWorkers]
    /\ cResults = <<>>
    /\ cChannels = <<>>
    /\ cFutures = <<>>
    /\ cPc = "idle"
    /\ cIdx = 1
    /\ cCalls = 0
    /\ NormIdle
    /\ ProbeIdle
    /\ VerifyIdle
    /\ MergeIdle
    /\ SortIdle
    /\ RunIdle
    /\ OrganizeIdle
    /\ WorldIdle
    /\ ParseIdle

\* lines 18-29: check is entered; the tasks are listed and the pool is created
EnterCheck(channels) ==
    /\ cCalls' = cCalls + 1
    /\ cChannels' = channels
    /\ cFutures' = <<>>
    /\ cIdx' = 1
    /\ cPc' = IF "max_workers" \notin cConfig.keys THEN "failed"
              ELSE IF check_tasks(channels) = <<>> THEN "collect"
              ELSE "submit"
    /\ UNCHANGED <<cConfig, cResults, normVars, probeVars, verifyVars, mergeVars, sortVars, runVars, organizeVars, worldVars, parseVars>>

\* the first call of check on a checker
CheckBegin(channels) ==
    /\ cPc = "idle"
    /\ EnterCheck(channels)

\* a later call of check on the same checker, after the previous one returned
CheckAgain(channels) ==
    /\ cPc = "returned"
    /\ cCalls < MaxCalls
    /\ EnterCheck(channels)

\* line 30: executor.submit for the next task
Submit ==
    /\ cPc = "submit"
    /\ LET tasks == check_tasks(cChannels)
           task == tasks[Len(cFutures) + 1]
       IN /\ cFutures' = Append(cFutures, [task |-> task, state |-> "queued",
                                           out |-> Raised("")])
          /\ cPc' = IF Len(cFutures) + 1 = Len(tasks) THEN "collect" ELSE "submit"
    /\ UNCHANGED <<cConfig, cResults, cChannels, cIdx, cCalls,
                   normVars, probeVars, verifyVars, mergeVars, sortVars, runVars, organizeVars, worldVars, parseVars>>

Running == {i \in 1..Len(cFutures) : cFutures[i].state = "running"}

Queued == {i \in 1..Len(cFutures) : cFutures[i].state = "queued"}

\* a worker thread of the pool takes the oldest queued work item
StartTask ==
    /\ cPc \in {"submit", "collect"}
    /\ Queued # {}
    /\ Cardinality(Running) < cConfig.max_workers
    /\ LET i == CHOOSE q \in Queued : \A r \in Queued : q <= r
       IN cFutures' = [cFutures EXCEPT ![i].state = "running"]
    /\ UNCHANGED <<cConfig, cResults, cChannels, cPc, cIdx, cCalls,
                   normVars, probeVars, verifyVars, mergeVars, sortVars, runVars, organizeVars, worldVars, parseVars>>

\* a worker thread finishes _check_source(url) and sets the future
FinishTask(i, out) ==
    /\ i \in Running
    /\ cFutures' = [cFutures EXCEPT ![i].state = "done", ![i].out = out]
    /\ UNCHANGED <<cConfig, cResults, cChannels, cPc, cIdx, cCalls,
                   normVars, probeVars, verifyVars, mergeVars, sortVars, runVars, organizeVars, worldVars, parseVars>>

\* lines 34-50 with the loop running over as_completed(futures): the results
\* are stored in the order in which the futures are done
Collect_as_completed ==
    /\ cPc = "collect"
    /\ cIdx <= Len(cFutures)
    /\ \E i \in cIdx..Len(cFutures) :
          /\ cFutures[i].state = "done"
          /\ cResults' = store_result(cResults, cFutures[i].task, cFutures[i].out)
          /\ cFutures' = [cFutures EXCEPT ![cIdx] = cFutures[i], ![i] = cFutures[cIdx]]
    /\ cIdx' = cIdx + 1
    /\ UNCHANGED <<cConfig, cChannels, cPc, cCalls,
                   normVars, probeVars, verifyVars, mergeVars, sortVars, runVars, organizeVars, worldVars, parseVars>>

\* lines 34-50: future.result() returns or raises once the future is done
Collect ==
    /\ cPc = "collect"
    /\ cIdx <= Len(cFutures)
    /\ cFutures[cIdx].state = "done"
    /\ cResults' = store_result(cResults, cFutures[cIdx].task, cFutures[cIdx].out)
    /\ cIdx' = cIdx + 1
    /\ UNCHANGED <<cConfig, cChannels, cFutures, cPc, cCalls,
                   normVars, probeVars, verifyVars, mergeVars, sortVars, runVars, organizeVars, worldVars, parseVars>>

\* lines 29, 53: the with block ends (shutdown(wait=True) joins the worker
\* threads) and self.results is returned
Return ==
    /\ cPc = "collect"
    /\ cIdx > Len(cFutures)
    /\ \A i \in 1..Len(cFutures) : cFutures[i].state = "done"
    /\ cPc' = "returned"
    /\ UNCHANGED <<cConfig, cResults, cChannels, cFutures, cIdx, cCalls,
                   normVars, probeVars, verifyVars, mergeVars, sortVars, runVars, organizeVars, worldVars, parseVars>>

NextCheck ==
    \/ \E channels \in ChannelInputs : CheckBegin(channels)
    \/ Submit
    \/ StartTask
    \/ \E i \in 1..MaxTasks, out \in TaskOutcomes(cConfig.keys) : FinishTask(i, out)
    \/ Collect
    \/ Return

SpecCheck == InitCheck /\ [][NextCheck]_vars

NextCheckAgain ==
    \/ NextCheck
    \/ \E channels \in ChannelInputs : CheckAgain(channels)

SpecCheckAgain == InitCheck /\ [][NextCheckAgain]_vars

RECURSIVE ProbedSources(_, _)
\* the (url, valid, latency) tuples of the first n futures of this call that
\* belong to channel ch and did not raise, in submission order
ProbedSources(ch, n) ==
    IF n = 0 THEN <<>>
    ELSE LET f == cFutures[n]
         IN IF f.task.channel_id = ch /\ f.state = "done" /\ f.out.exc = ""
            THEN Append(ProbedSources(ch, n - 1), <<f.task.url, f.out.is_valid, f.out.latency>>)
            ELSE ProbedSources(ch, n - 1)

\* how often x occurs in the sequence q
Count(q, x) == Cardinality({i \in 1..Len(q) : q[i] = x})

\* C5: for every call of check, also a later one on the same checker, the keys
\* of the returned mapping are keys of the channels passed to that call, and a
\* returned source list holds only results of probes dispatched by that call.
C5_ReturnsOnlyThisCall ==
    cPc = "returned" =>
        /\ Keys(cResults) \subseteq Keys(cChannels)
        /\ \A k \in 1..Len(cResults) :
              \A j \in 1..Len(cResults[k].sources) :
                 Count(cResults[k].sources, cResults[k].sources[j])
                    <= Count(ProbedSources(cResults[k].id, Len(cFutures)),
                             cResults[k].sources[j])

\* C6: when the first call of check on a checker returns, every task was
\* submitted and has finished, and self.results holds for every channel exactly
\* the tuples of its tasks that did not raise (in submission order, under the
\* channel's own info), and nothing for a task that raised or for a channel
\* without such a tuple; the call fails only for want of max_workers.
C6_BarrierAndAttribution ==
    /\ (cCalls = 1 /\ cPc = "returned") =>
          /\ Len(cFutures) = Len(check_tasks(cChannels))
          /\ \A i \in 1..Len(cFutures) :
                /\ cFutures[i].state = "done"
                /\ cFutures[i].task = check_tasks(cChannels)[i]
          /\ Keys(cResults) \subseteq Keys(cChannels)
          /\ \A k \in 1..Len(cChannels) :
                LET ch == cChannels[k].id
                    probed == ProbedSources(ch, Len(cFutures))
                IN IF probed = <<>> THEN ch \notin Keys(cResults)
                   ELSE /\ ch \in Keys(cResults)
                        /\ Get(cResults, ch).sources = probed
                        /\ Get(cResults, ch).info = cChannels[k].info
                        /\ Count([i \in 1..Len(cResults) |-> cResults[i].id], ch) = 1
    /\ cPc = "failed" => "max_workers" \notin cConfig.keys

\* the first call returned with two workers; one task of a channel raised and
\* another task of the same channel returned a result
C6_Witness ==
    /\ cCalls = 1
    /\ cPc = "returned"
    /\ cConfig.max_workers = 2
    /\ \E i, j \in 1..Len(cFutures) :
          /\ cFutures[i].task.channel_id = cFutures[j].task.channel_id
          /\ cFutures[i].out.exc # ""
          /\ cFutures[j].out.exc = ""
          /\ Len(Get(cResults, cFutures[j].task.channel_id).sources) = 1

(***************************************************************************)
(* Specification of the resolver: one call of merge on the results of a    *)
(* check.                                                                  *)
(***************************************************************************)
Init ==
    /\ \E ra \in RecordChoices(ChannelIds[1], MaxSources) :
          \E rb \in RecordChoices(ChannelIds[2], MaxSources - SourceCount(ra)) :
             /\ mResults = ResultsOf(ra \o rb)
             /\ mInspect = InspectOf(ra \o rb)
    /\ mConfig \in {ConfigKeys, ConfigKeys \ {"categories"}, ConfigKeys \ {"output_file"}}
    /\ mPc = "ready"
    /\ mFile = <<>>
    /\ NormIdle
    /\ ProbeIdle
    /\ VerifyIdle
    /\ CheckIdle
    /\ SortIdle
    /\ RunIdle
    /\ OrganizeIdle
    /\ WorldIdle
    /\ ParseIdle

\* merge(check_results): lines 193-267
Merge ==
    /\ mPc = "ready"
    /\ IF "output_file" \notin mConfig
       THEN \* line 248 raises KeyError before the file is opened
            /\ mPc' = "failed"
            /\ mFile' = mFile
       ELSE IF "categories" \notin mConfig
       THEN \* line 272 raises KeyError after the header was written
            /\ mPc' = "failed"
            /\ mFile' = <<<<>>>>
       ELSE /\ mPc' = "done"
            /\ mFile' = <<merge_file(mResults, mInspect)>>
    /\ UNCHANGED <<mConfig, mResults, mInspect, normVars, probeVars, verifyVars, checkVars, sortVars, runVars, organizeVars, worldVars, parseVars>>

Next == Merge

Spec == Init /\ [][Next]_vars

\* the canonical names of the input records, in their order
Canonical == [k \in 1..Len(mResults) |-> normalize_channel_name(mResults[k].info.title)]

\* the (record, source) pairs that are valid and pass verification, the
\* records having the canonical names canon
SurvivorPairs(canon) ==
    UNION { { <<k, j>> : j \in {i \in 1..Len(mResults[k].sources) :
                                  /\ mResults[k].sources[i][2]
                                  /\ verify_channel(canon[k], mInspect[k][i]).is_verified} } :
            k \in 1..Len(mResults) }

UrlOf(p) == mResults[p[1]].sources[p[2]][1]

LatencyOf(p) == mResults[p[1]].sources[p[2]][3]

\* the entries written after the header
Written == mFile[1]

\* C1: once merge has returned, for every canonical name that has a valid
\* and verified source in some input record the file holds exactly one entry
\* with that title, and the URL of this entry is the URL of a surviving source
\* whose latency is the minimum over all surviving sources of all records
\* that normalize to the name.
C1_OneEntryMinLatency ==
    mPc = "done" =>
        \A canon \in {Canonical} : \A surviving \in {SurvivorPairs(canon)} :
           \A s \in surviving :
              LET n == canon[s[1]]
                  titled == {e \in 1..Len(Written) : Written[e].title = n}
                  group == {q \in surviving : canon[q[1]] = n}
              IN /\ Cardinality(titled) = 1
                 /\ \E p \in group :
                       /\ \A e \in titled : Written[e].source = UrlOf(p)
                       /\ \A q \in group : LatencyOf(p) <= LatencyOf(q)

\* merge has returned on two records of one canonical name, and the entry
\* written carries the faster source of the second record although the first
\* record has a surviving source too
C1_Witness ==
    /\ mPc = "done"
    /\ Len(mResults) = 2
    /\ mResults[1].info.title # mResults[2].info.title
    /\ Len(Written) = 1
    /\ Written[1].source = <<ChannelIds[2], 1>>
    /\ LET canon == Canonical
       IN /\ canon[1] = canon[2]
          /\ \E p \in SurvivorPairs(canon) : p[1] = 1 /\ LatencyOf(p) > LatencyOf(<<2, 1>>)

\* C2: every entry of the file carries the URL of a surviving source of a
\* record that normalizes to the title of the entry; so a name none of whose
\* records has a valid and verified source has no entry, and no entry is
\* without a URL.
C2_NoSurvivorNoEntry ==
    (mFile # <<>> /\ Written # <<>>) =>
        \A canon \in {Canonical} : \A surviving \in {SurvivorPairs(canon)} :
           \A e \in 1..Len(Written) :
              /\ Written[e].source # <<>>
              /\ \E p \in surviving :
                    /\ canon[p[1]] = Written[e].title
                    /\ UrlOf(p) = Written[e].source

\* merge has returned on two records with sources: the first has a valid
\* source that fails verification and an invalid one, and only the second
\* is in the file
C2_Witness ==
    /\ mPc = "done"
    /\ Len(mResults) = 2
    /\ Len(mResults[1].sources) = 2
    /\ \E j \in 1..2 : mResults[1].sources[j][2]
    /\ \E j \in 1..2 : ~mResults[1].sources[j][2]
    /\ \A p \in SurvivorPairs(Canonical) : p[1] = 2
    /\ Len(Written) = 1
    /\ Written[1].title = <<"t", "v">>
    /\ Written[1].source = <<ChannelIds[2], 1>>

(***************************************************************************)
(* Specification of the category sort: one call of each of the two sorts   *)
(* on the same channels.                                                   *)
(***************************************************************************)
InitSort ==
    /\ sConfig \in {ConfigKeys, ConfigKeys \ {"categories"}}
    /\ \E n \in 0..MaxChannels : sIn \in SortInputs(n)
    /\ sOut = <<>>
    /\ NormIdle
    /\ ProbeIdle
    /\ VerifyIdle
    /\ CheckIdle
    /\ MergeIdle
    /\ RunIdle
    /\ OrganizeIdle
    /\ WorldIdle
    /\ ParseIdle

\* src/src/merger.py lines 269-281 (KeyError at line 272 without the key) and
\* src/main.py lines 342-354
SortCall ==
    /\ sOut = <<>>
    /\ sOut' = <<[raised |-> "categories" \notin sConfig,
                  merger |-> IF "categories" \in sConfig
                             THEN sort_channels_by_category(sIn) ELSE <<>>,
                  root |-> main_sort_channels_by_category(sIn, sConfig)]>>
    /\ UNCHANGED <<sConfig, sIn, normVars, probeVars, verifyVars, checkVars, mergeVars, runVars, organizeVars, worldVars, parseVars>>

NextSort == SortCall

SpecSort == InitSort /\ [][NextSort]_vars

\* the rank of a channel under the category list cats: the index of its
\* group-title, Len(cats) + 1 when the group-title is missing or not in cats
CategoryRank(c, cats) ==
    IF c.info.group # "" /\ \E i \in 1..Len(cats) : cats[i] = c.info.group
    THEN CHOOSE i \in 1..Len(cats) : cats[i] = c.info.group
    ELSE Len(cats) + 1

\* the position in the input of the sort of the channel titled as c
InputPosition(c) == CHOOSE i \in 1..Len(sIn) : sIn[i].name = c.name

\* out holds the channels of the input, by nondecreasing rank, and channels
\* of one rank in their input order
StablyRanked(out, cats) ==
    /\ Len(out) = Len(sIn)
    /\ \A i \in 1..Len(sIn) : \E j \in 1..Len(out) : out[j] = sIn[i]
    /\ \A i, j \in 1..Len(out) :
          i < j => \/ CategoryRank(out[i], cats) < CategoryRank(out[j], cats)
                   \/ /\ CategoryRank(out[i], cats) = CategoryRank(out[j], cats)
                      /\ InputPosition(out[i]) < InputPosition(out[j])

\* C11: what either sort returns holds the channels it was given ordered by
\* category rank: a channel of a configured category precedes every channel
\* of a category further down the list, every channel of an unknown or
\* missing category comes after all channels of configured categories, and
\* channels of the same rank keep their order of the input.
C11_StableCategoryOrder ==
    sOut # <<>> =>
        /\ ~sOut[1].raised => StablyRanked(sOut[1].merger, categories)
        /\ StablyRanked(sOut[1].root, IF "categories" \in sConfig THEN categories ELSE <<>>)

\* the sort has moved a channel of a configured category in front of two
\* channels of unknown and missing category, which kept their order, and has
\* kept the input order of two channels of one configured category
C11_Witness ==
    /\ sOut # <<>>
    /\ ~sOut[1].raised
    /\ Len(sIn) = 3
    /\ sIn[1].info.group = "Kids"
    /\ sIn[2].info.group = ""
    /\ sIn[3].info.group = "Sports"
    /\ sOut[1].merger = <<sIn[3], sIn[1], sIn[2]>>
    /\ sOut[1].root = sOut[1].merger

(***************************************************************************)
(* Specification of a run of either entry point, from the command line to  *)
(* the exit of main.                                                       *)
(***************************************************************************)
InitRun ==
    /\ rEntry \in {"main", "src_main"}
    /\ rArgs \in [no_check : BOOLEAN, no_epg : BOOLEAN]
    /\ rEntry = "src_main" => ~rArgs.no_epg
    \* config.json holds every key that is read, or lacks one of them, or holds
    \* a key that no code reads (keep_top_k, with a value greater than 1)
    /\ rConfig \in {RunConfigKeys} \cup {RunConfigKeys \ {k} : k \in RunConfigKeys}
                     \cup {RunConfigKeys \cup {"keep_top_k"}}
    /\ rFiles \in RunFiles(MaxLines)
    /\ rWorld \in RunWorlds
    /\ rEpg \in BOOLEAN
    /\ (rEntry = "src_main" \/ rArgs.no_epg \/ rArgs.no_check) => ~rEpg
    /\ rPc = "start"
    /\ rChannels = <<>>
    /\ rProbes = 0
    /\ rResults = <<>>
    /\ rFile = <<>>
    /\ NormIdle
    /\ ProbeIdle
    /\ VerifyIdle
    /\ CheckIdle
    /\ MergeIdle
    /\ SortIdle
    /\ OrganizeIdle
    /\ WorldIdle
    /\ ParseIdle

\* src/main.py lines 401-436 and src/src/main.py lines 118-138: the
\* configuration is loaded, the source files are parsed and put together
RunParse ==
    /\ rPc = "start"
    /\ IF rEntry = "main" /\ "output_dir" \notin rConfig
       THEN \* src/main.py line 407 raises KeyError
            /\ rPc' = "failed"
            /\ rChannels' = rChannels
       ELSE /\ rPc' = "parsed"
            /\ IF rEntry = "main"
               THEN rChannels' \in deduplicated(all_channels(rFiles))
               ELSE rChannels' = all_channels(rFiles)
    /\ UNCHANGED <<rEntry, rArgs, rConfig, rFiles, rWorld, rEpg, rProbes, rResults, rFile,
                   normVars, probeVars, verifyVars, checkVars, mergeVars, sortVars, organizeVars, worldVars, parseVars>>

\* src/main.py lines 438-441 and 480-484, src/src/main.py lines 140-151
RunCheck ==
    /\ rPc = "parsed"
    /\ IF rArgs.no_check
       THEN /\ rProbes' = rProbes
            /\ IF rEntry = "main"
               THEN \* src/main.py line 481: nothing more is done
                    /\ rPc' = "done"
                    /\ rResults' = rResults
               ELSE /\ rPc' = "checked"
                    /\ rResults' = unchecked_results(rChannels)
       ELSE IF "max_workers" \notin rConfig
       THEN \* checker.py line 29 raises KeyError
            /\ rPc' = "failed"
            /\ rProbes' = rProbes
            /\ rResults' = rResults
       ELSE /\ rPc' = "checked"
            /\ rProbes' = probes_started(rConfig, rChannels)
            /\ rResults' = check_returns(rConfig, rChannels, rWorld)
    /\ UNCHANGED <<rEntry, rArgs, rConfig, rFiles, rWorld, rEpg, rChannels, rFile,
                   normVars, probeVars, verifyVars, checkVars, mergeVars, sortVars, organizeVars, worldVars, parseVars>>

\* src/main.py lines 443-479, src/src/main.py lines 153-157 with
\* IPTVSourceMerger.__init__ and merge
RunResolve ==
    /\ rPc = "checked"
    /\ IF rEntry = "main"
       THEN /\ rPc' = "done"
            /\ rFile' = <<main_file(rResults, rArgs.no_epg, rEpg, rConfig)>>
       ELSE IF "output_dir" \notin rConfig \/ "output_file" \notin rConfig
       THEN \* merger.py line 15 or line 248 raises KeyError
            /\ rPc' = "failed"
            /\ rFile' = rFile
       ELSE IF "categories" \notin rConfig
       THEN \* merger.py line 272 raises KeyError after the header was written
            /\ rPc' = "failed"
            /\ rFile' = <<<<>>>>
       ELSE /\ rPc' = "done"
            /\ rFile' = <<merge_file(rResults, inspections(rResults, rWorld))>>
    /\ UNCHANGED <<rEntry, rArgs, rConfig, rFiles, rWorld, rEpg, rChannels, rProbes, rResults,
                   normVars, probeVars, verifyVars, checkVars, mergeVars, sortVars, organizeVars, worldVars, parseVars>>

NextRun == RunParse \/ RunCheck \/ RunResolve

SpecRun == InitRun /\ [][NextRun]_vars

\* C12: a run of either entry point that ends without a fatal error has
\* written the output playlist, whatever the flags.
C12_CompletedRunWritesFile == rPc = "done" => rFile # <<>>

\* C13: in a run whose configuration lacks one of the required keys, no probe
\* is ever started, the output playlist is never created or truncated, and
\* the run does not complete: it ends with a fatal error.
C13_ConfigMissingHaltsFirst ==
    (ConfigKeys \ rConfig) # {} =>
        /\ rProbes = 0
        /\ rFile = <<>>
        /\ rPc # "done"

\* the (record, source) pairs of the check results of the run that are valid
\* and pass the inspection of the merge
RunSurvivors ==
    UNION { { <<k, j>> : j \in {i \in 1..Len(rResults[k].sources) :
                                  /\ rResults[k].sources[i][2]
                                  /\ verify_channel(
                                         normalize_channel_name(rResults[k].info.title),
                                         inspections(rResults, rWorld)[k][i]).is_verified} } :
            k \in 1..Len(rResults) }

\* the number of URL lines that the written file holds under the title name
RunUrlLines(name) == Cardinality({e \in 1..Len(rFile[1]) : rFile[1][e].title = name})

\* C15: a completed run of src/src/main.py whose configuration sets keep_top_k
\* to more than 1 writes, for every canonical name with at least two surviving
\* sources, the primary URL line and at least one backup URL line.
C15_TopKSourcesWritten ==
    (rEntry = "src_main" /\ rPc = "done" /\ "keep_top_k" \in rConfig) =>
        \A k \in 1..Len(rResults) :
            LET name == normalize_channel_name(rResults[k].info.title)
                group == {p \in RunSurvivors :
                            normalize_channel_name(rResults[p[1]].info.title) = name}
            IN Cardinality(group) >= 2 => RunUrlLines(name) >= 2

\* C16: in every run, once the source files are parsed, the URL list of each
\* channel record handed to the check (or, with --no-check, to the merge)
\* holds no URL twice.
C16_NoDuplicateUrl ==
    rPc # "start" =>
        \A k \in 1..Len(rChannels) :
            \A i, j \in 1..Len(rChannels[k].urls) :
                i # j => rChannels[k].urls[i] # rChannels[k].urls[j]

\* C20: in a run of src/main.py that has grouped its channels, every title
\* written is a canonical name, and no two entries have titles of the same
\* canonical name, with or without EPG processing and EPG data.
C20_TitlesCanonicalBeforeGrouping ==
    (rEntry = "main" /\ rPc = "done" /\ rFile # <<>>) =>
        /\ \A e \in 1..Len(rFile[1]) :
              main_normalize_channel_name(rFile[1][e].title, rConfig) = rFile[1][e].title
        /\ \A e, f \in 1..Len(rFile[1]) :
              e # f => main_normalize_channel_name(rFile[1][e].title, rConfig)
                         # main_normalize_channel_name(rFile[1][f].title, rConfig)

(***************************************************************************)
(* Specification of the two resolvers: one call of merge, or one call of   *)
(* organize_channels on the serializable form of the same check results.   *)
(***************************************************************************)
InitResolvers ==
    /\ \E ra \in RecordChoices(ChannelIds[1], MaxSources) :
          \E rb \in RecordChoices(ChannelIds[2], MaxSources - SourceCount(ra)) :
             /\ mResults = ResultsOf(ra \o rb)
             /\ mInspect = InspectOf(ra \o rb)
    /\ mConfig = ConfigKeys
    /\ \/ mPc = "ready" /\ oPc = "off"
       \/ mPc = "off" /\ oPc = "ready"
    /\ mFile = <<>>
    /\ oOut = <<>>
    /\ NormIdle
    /\ ProbeIdle
    /\ VerifyIdle
    /\ CheckIdle
    /\ SortIdle
    /\ RunIdle
    /\ WorldIdle
    /\ ParseIdle

\* src/main.py lines 447-455 and 471: organize_channels(serializable_results)
Organize ==
    /\ oPc = "ready"
    /\ oPc' = "done"
    /\ oOut' = <<organize_channels(serializable_results(mResults))>>
    /\ UNCHANGED <<normVars, probeVars, verifyVars, checkVars, mergeVars, sortVars, runVars, worldVars, parseVars>>

NextResolvers == Merge \/ Organize

SpecResolvers == InitResolvers /\ [][NextResolvers]_vars

\* the (record, source) pairs of the input whose source is valid
ValidPairs ==
    UNION { { <<k, j>> : j \in {i \in 1..Len(mResults[k].sources) : mResults[k].sources[i][2]} } :
            k \in 1..Len(mResults) }

\* the (record, source) pair of the input whose URL is url
PairOf(url) ==
    CHOOSE p \in UNION { { <<k, j>> : j \in 1..Len(mResults[k].sources) } :
                         k \in 1..Len(mResults) } : UrlOf(p) = url

\* names is the name under which each record is grouped and surviving the
\* pairs that may be selected; chosen[k] is the set of URLs selected for the
\* name of record k.  Every selected URL is of a surviving pair of its name
\* and no surviving pair of the name is faster; every name with a surviving
\* pair has a selected URL
SelectsAmong(names, surviving, chosen) ==
    \A k \in 1..Len(mResults) :
        LET group == {p \in surviving : names[p[1]] = names[k]}
        IN /\ \A url \in chosen[k] :
                 /\ PairOf(url) \in group
                 /\ \A q \in group : LatencyOf(PairOf(url)) <= LatencyOf(q)
           /\ group # {} => chosen[k] # {}

\* per record, the URLs written by merge under the name names[k]
MergeChosen(names) ==
    [k \in 1..Len(names) |->
        {Written[e].source : e \in {i \in 1..Len(Written) : Written[i].title = names[k]}}]

\* per record, the URLs kept by organize_channels under the name names[k]
OrganizeChosen(names) ==
    [k \in 1..Len(names) |->
        {oOut[1][e].source : e \in {i \in 1..Len(oOut[1]) : oOut[1][i].name = names[k]}}]

\* the titles of the input records, under which organize_channels groups
Titles == [k \in 1..Len(mResults) |-> mResults[k].info.title]

\* C14: in both resolvers a source that the probe found invalid is never the
\* source selected for a channel and has no part in the comparison of
\* latencies: the source selected is a valid one (in merge, valid and
\* verified) and the fastest of those, whatever the latencies of the invalid
\* sources are, -1 included.
C14_InvalidNeverSelected ==
    /\ mPc = "done" =>
          \A canon \in {Canonical} :
              /\ SelectsAmong(canon, SurvivorPairs(canon), MergeChosen(canon))
              /\ \A e \in 1..Len(Written) : PairOf(Written[e].source) \in ValidPairs
    /\ oPc = "done" =>
          /\ SelectsAmong(Titles, ValidPairs, OrganizeChosen(Titles))
          /\ \A e \in 1..Len(oOut[1]) : PairOf(oOut[1][e].source) \in ValidPairs

\* organize_channels has kept the valid source of a record whose other
\* source timed out and so carries the latency -1
C14_Witness ==
    /\ oPc = "done"
    /\ Len(mResults) = 1
    /\ Len(mResults[1].sources) = 2
    /\ mResults[1].sources[1][2] = FALSE
    /\ mResults[1].sources[1][3] = Inf
    /\ mResults[1].sources[2][2] = TRUE
    /\ serializable_results(mResults)[1].sources[1].latency = Sentinel
    /\ Len(oOut[1]) = 1
    /\ oOut[1][1].source = mResults[1].sources[2][1]

\* the pair of the set group that is met first in the iteration over the
\* records and, within a record, over its sources, among the fastest ones
FirstFastest(group) ==
    CHOOSE p \in group :
        \A q \in group :
            \/ LatencyOf(p) < LatencyOf(q)
            \/ /\ LatencyOf(p) = LatencyOf(q)
               /\ (p[1] < q[1] \/ (p[1] = q[1] /\ p[2] <= q[2]))

\* for every name with a surviving pair exactly the URL of the first of the
\* fastest surviving pairs of the name is selected
SelectsFirst(names, surviving, chosen) ==
    \A k \in 1..Len(mResults) :
        LET group == {p \in surviving : names[p[1]] = names[k]}
        IN group # {} => chosen[k] = {UrlOf(FirstFastest(group))}

\* C18: when several surviving sources of one name have the least latency, both
\* resolvers select the one met first: that of the earliest record of the
\* input mapping and, within the record, the earliest of its source list.
C18_FirstEncounteredWins ==
    /\ mPc = "done" =>
          \A canon \in {Canonical} :
              SelectsFirst(canon, SurvivorPairs(canon), MergeChosen(canon))
    /\ oPc = "done" => SelectsFirst(Titles, ValidPairs, OrganizeChosen(Titles))

\* organize_channels has met two records of one title whose fastest valid
\* sources have the same latency, and has kept the source of the first record
C18_Witness ==
    /\ oPc = "done"
    /\ Len(mResults) = 2
    /\ mResults[1].info.title = mResults[2].info.title
    /\ Len(mResults[1].sources) = 1
    /\ Len(mResults[2].sources) = 1
    /\ <<1, 1>> \in ValidPairs
    /\ <<2, 1>> \in ValidPairs
    /\ LatencyOf(<<1, 1>>) = LatencyOf(<<2, 1>>)
    /\ Len(oOut[1]) = 1
    /\ oOut[1][1].source = UrlOf(<<1, 1>>)

(***************************************************************************)
(* Specification of src/src/main.py from the check on: one call of check   *)
(* on a fresh checker, its probe tasks running concurrently in the pool,   *)
(* followed by merge.  What the ffprobe processes of a URL do is fixed     *)
(* when the run starts; the order in which the tasks finish is not.        *)
(***************************************************************************)
\* the channel mappings parsed from two source files
PipelineInputs == {all_channels(files) : files \in RunFiles(MaxLines)}

PipelineWorlds ==
    {World(p1, i1, p2, i2) : p1 \in TaskRuns, p2 \in TaskRuns,
                             i1 \in {RunFails, RunNamed(Shop)},
                             i2 \in {RunFails, RunNamed(Shop)}}

InitPipeline ==
    /\ cConfig \in [keys : {ConfigKeys}, max_workers : 1..MaxWorkers]
    /\ cResults = <<>>
    /\ cChannels = <<>>
    /\ cFutures = <<>>
    /\ cPc = "idle"
    /\ cIdx = 1
    /\ cCalls = 0
    /\ wOutcomes \in PipelineWorlds
    /\ wFinished = <<>>
    /\ NormIdle
    /\ ProbeIdle
    /\ VerifyIdle
    /\ MergeIdle
    /\ SortIdle
    /\ RunIdle
    /\ OrganizeIdle
    /\ ParseIdle

\* a worker thread finishes _check_source(url): the outcome is what the
\* ffprobe process of the URL does
FinishProbe(i) ==
    /\ i \in Running
    /\ cFutures' = [cFutures EXCEPT
                       ![i].state = "done",
                       ![i].out = check_source(cConfig.keys, wOutcomes[cFutures[i].task.url].probe)]
    /\ wFinished' = Append(wFinished, i)
    /\ UNCHANGED <<cConfig, cResults, cChannels, cPc, cIdx, cCalls, wOutcomes,
                   normVars, probeVars, verifyVars, mergeVars, sortVars, runVars, organizeVars, parseVars>>

\* src/src/main.py lines 153-155: IPTVSourceMerger(config).merge(check_results)
\* on what check returned
MergeChecked ==
    /\ cPc = "returned"
    /\ mPc = "ready"
    /\ mResults' = cResults
    /\ mInspect' = inspections(cResults, wOutcomes)
    /\ mFile' = <<merge_file(cResults, inspections(cResults, wOutcomes))>>
    /\ mPc' = "done"
    /\ UNCHANGED <<mConfig, normVars, probeVars, verifyVars, checkVars, sortVars, runVars,
                   organizeVars, worldVars, parseVars>>

NextPipeline ==
    \/ \E channels \in PipelineInputs : CheckBegin(channels)
    \/ Submit
    \/ StartTask
    \/ \E i \in 1..MaxLines : FinishProbe(i)
    \/ Collect
    \/ Return
    \/ MergeChecked

SpecPipeline == InitPipeline /\ [][NextPipeline]_vars

\* C19: in whatever order the probe tasks finish, check returns the mapping
\* that handling the tasks one after the other in submission order gives (the
\* records in the order of the input, each source list in the order of the
\* URL list), and merge writes the entries it writes for that mapping: the
\* same names, the same source for each, in the same order.
C19_CompletionOrderIrrelevant ==
    LET sequential == check_returns(cConfig.keys, cChannels, wOutcomes)
    IN /\ cPc = "returned" => cResults = sequential
       /\ mPc = "done" =>
             /\ mResults = sequential
             /\ mFile = <<merge_file(sequential, inspections(sequential, wOutcomes))>>

\* the task submitted second finished before the task submitted first, check
\* returned and merge wrote an entry
C19_Witness ==
    /\ mPc = "done"
    /\ wFinished = <<2, 1>>
    /\ cFutures[1].out.latency # cFutures[2].out.latency
    /\ mFile[1] # <<>>

(***************************************************************************)
(* Specification of parse_m3u_file: one call on a file of a header line    *)
(* and at most MaxFileLines more lines.  content.strip() leaves no empty   *)
(* line at the end.                                                        *)
(***************************************************************************)
InitParse ==
    /\ \E n \in 0..MaxFileLines :
          \E body \in [1..n -> ParseLines] :
             /\ n > 0 => body[n].kind # "blank"
             /\ \E header \in BOOLEAN : fFile = [header |-> header, body |-> body]
    /\ fPc = "ready"
    /\ fOut = <<>>
    /\ NormIdle
    /\ ProbeIdle
    /\ VerifyIdle
    /\ CheckIdle
    /\ MergeIdle
    /\ SortIdle
    /\ RunIdle
    /\ OrganizeIdle
    /\ WorldIdle

ParseFile ==
    /\ fPc = "ready"
    /\ fPc' = "done"
    /\ fOut' = <<parse_m3u_lines(fFile)>>
    /\ UNCHANGED <<fFile, normVars, probeVars, verifyVars, checkVars, mergeVars, sortVars,
                   runVars, organizeVars, worldVars>>

NextParse == ParseFile

SpecParse == InitParse /\ [][NextParse]_vars

\* the #EXTINF lines strictly between lines i and j
ExtinfBetween(i, j) == {k \in (i + 1)..(j - 1) : fFile.body[k].kind = "extinf"}

\* C21: once parse_m3u_file has returned, no URL line was paired with an
\* #EXTINF line from which another #EXTINF line separates it, and every
\* #EXTINF line that has a channel id and is followed by a URL line before
\* the next #EXTINF line was paired with a URL.
C21_ExtinfPairedWithOwnUrl ==
    (fPc = "done" /\ fFile.header) =>
        LET body == fFile.body
            pairs == fOut[1].pairs
        IN /\ \A n \in 1..Len(pairs) : ExtinfBetween(pairs[n][1], pairs[n][2]) = {}
           /\ \A i \in 1..Len(body) :
                 (/\ body[i].kind = "extinf"
                  /\ body[i].id # ""
                  /\ \E j \in (i + 1)..Len(body) :
                        body[j].kind = "url" /\ ExtinfBetween(i, j) = {})
                 => \E n \in 1..Len(pairs) : pairs[n][1] = i
====
